---- MODULE Spec2Model ----
(***************************************************************************)
(* Model of the engineish character core: Character.update (motion         *)
(* integration), Engine.checkCollisions / handleCollision (collision       *)
(* resolution), Engine.animate (the per-frame tick with the out-of-bounds  *)
(* reset and the death check) and the Character health / invulnerability   *)
(* state machine; the multiplayer client (sockets, inbound handlers,        *)
(* remote-player mirrors, the playerUpdate publish), the relay server's     *)
(* player records, Group membership, Folder.find and the Hopperbin tools.   *)
(*                                                                         *)
(* Lengths and velocities are integers in units of 0.001 world units       *)
(* (gravity 0.01 is 10, maxFallSpeed 0.5 is 500).  Every length of the     *)
(* model is a multiple of 10, so the box centres and the direction tests   *)
(* of handleCollision are computed exactly.  Times are milliseconds on the *)
(* clock of Date.now(), counted from StartTime.                            *)
(***************************************************************************)
EXTENDS Integers, Sequences, FiniteSets, TLC

VARIABLES
    position,                \* Character.group.position, <<x, y, z>>
    velocity,                \* Character.properties.velocity, <<x, y, z>>
    isGrounded,              \* Character.properties.isGrounded
    isJumping,               \* Character.properties.isJumping
    positionHistory,         \* Character.positionHistory (oldest first)
    keys,                    \* Character.keys
    health,                  \* Character.properties.health
    maxHealth,               \* Character.properties.maxHealth
    isInvulnerable,          \* Character.properties.isInvulnerable
    invulnerabilityDuration, \* Character.properties.invulnerabilityDuration
    lastDamageTime,          \* Character.properties.lastDamageTime
    now,                     \* Date.now()
    timers,                  \* deadlines of the pending setInvulnerable timeouts
    collidableParts,         \* Engine.collidableParts, in insertion order
    spawnPoints,             \* Engine.spawnPoints
    enableHealth,            \* Engine.options.enableHealth
    op,                      \* the last operation, its argument and its result
    tick,                    \* what the last Engine.animate tick observed
    frames,                  \* frames the run may still take (Unlimited: no cap)
    dmg,                     \* the last takeDamage call
    windowEnd,               \* end of the window of the latest setInvulnerable
    canCollide,              \* Part.properties.canCollide, per part
    groups,                  \* Engine.groups
    groupChildren,           \* Group.group.children: the parts whose mesh the group holds
    groupCollidableParts,    \* Group.collidableParts, in insertion order
    groupPosition,           \* Group.group.position
    boxPosition,             \* the group position each Part.boundingBox was computed with
    unregistered,            \* how each part was last taken out of the collision system
    enableMultiplayer,       \* Engine.options.enableMultiplayer
    socket,                  \* sockets opened by initializeMultiplayer (0: Engine.socket is null)
    playerId,                \* Engine.playerId
    remotePlayers,           \* Engine.remotePlayers: id -> mirror Character
    mirror,                  \* the Characters made by createRemotePlayer
    sceneCharacters,         \* the mirror Characters whose group the scene holds
    published,               \* payload of the last playerUpdate the client emitted
    emitted,                 \* names of the events the client emitted so far
    players,                 \* server: ids in the players Map
    playerData,              \* server: the player record objects
    serverTimers,            \* server: deadlines of the pending invulnerability timeouts, per id
    partName,                \* Part.name, per part
    children,                \* Group.children: key -> part
    folderChildren,          \* Folder.children per folder, in insertion order
    scriptRuns,              \* per client: how often a registered script was executed
    serverInbox,             \* toolAction events sent to the server, by sender, in order
    inbox,                   \* per client: toolAction events relayed to its socket
    serverNow,               \* server: Date.now()
    serverEmit,              \* server: events the last handler broadcast
    respawnedAt,             \* server: time of the latest accepted playerRespawned, per id
    hopperbins,              \* Character.hopperbins, in insertion order
    activeHopperbin,         \* Character.activeHopperbin
    isEquipped,              \* Hopperbin.isEquipped, per hopperbin
    isActive,                \* Hopperbin.isActive, per hopperbin
    currentHopperbin,        \* Hopperbin.currentHopperbin
    press                    \* the hopperbin action key: held, and isActive at its keydown

vars == <<position, velocity, isGrounded, isJumping, positionHistory, keys,
          health, maxHealth, isInvulnerable, invulnerabilityDuration,
          lastDamageTime, now, timers, collidableParts, spawnPoints,
          enableHealth, op, tick, frames, dmg, windowEnd, canCollide, groups,
          groupChildren, groupCollidableParts, groupPosition, boxPosition,
          unregistered, enableMultiplayer, socket, playerId, remotePlayers, mirror,
          sceneCharacters, published, emitted, players, playerData, serverTimers,
          partName, children, folderChildren, scriptRuns, serverInbox, hopperbins, activeHopperbin,
          inbox, serverNow, serverEmit, respawnedAt,
          isEquipped, isActive, currentHopperbin, press>>

bodyVars == <<position, velocity, isGrounded, isJumping, positionHistory>>

healthVars == <<health, maxHealth, isInvulnerable, invulnerabilityDuration,
                lastDamageTime, timers>>

groupVars == <<canCollide, groups, groupChildren, groupCollidableParts, groupPosition,
               boxPosition, unregistered>>

sceneVars == <<collidableParts, spawnPoints, enableHealth, frames, groupVars>>

mirrorVars == <<remotePlayers, mirror, sceneCharacters>>

netVars == <<enableMultiplayer, socket, playerId, mirrorVars, published, emitted>>

serverVars == <<players, playerData, serverTimers>>

memberVars == <<partName, children>>

toolVars == <<hopperbins, activeHopperbin, isEquipped, isActive, currentHopperbin, press>>

scriptVars == <<scriptRuns, serverInbox, inbox>>

clockVars == <<serverNow, serverEmit, respawnedAt>>

folderVars == <<folderChildren, scriptVars, clockVars>>

worldVars == <<netVars, serverVars, memberVars, folderVars, toolVars>>

-----------------------------------------------------------------------------
(* Tunables of Character.properties, in 0.001 units.                        *)

moveSpeed == 100

jumpForce == 300

gravity == 10

maxFallSpeed == 500

airResistance == 950

groundFriction == 850

maxVelocity == 500

maxHistoryLength == 3

DefaultMaxHealth == 100

DefaultInvulnerabilityDuration == 1000

RespawnInvulnerability == 2000

\* the health settings of the server
DEFAULT_MAX_HEALTH == 100

DEFAULT_HEALTH == 100

INVULNERABILITY_DURATION == 2000

maxAllowedDistance == 100000

\* thresholds on the components of the normalized direction, in tenths
verticalThreshold == 3

HorizontalThreshold == 1

TopSnapDistance == 500

CollisionEpsilon == 1

SpawnHeight == 2000

(* Bounding box of the default character relative to group.position: the   *)
(* legs reach down to -1.25 - 0.75, the head up to 2 + 0.5, the rotated    *)
(* arms out to 0.65 + 0.15 cos 30 + 0.5 sin 30 = 1.03, the head to 0.5 in z *)
BodyMinY == -2000

BodyMaxY == 2500

BodyHalfX == 1030

BodyHalfZ == 500

-----------------------------------------------------------------------------
(* Bounds of the model.                                                     *)

StartTime == 100000

TimeStep == 1000

MaxTime == 2000

HealthCap == 150

HealthFloor == 50

MaxTicks == 8

BodySteps == 3

SceneTicks == 2

\* the frame budget of a run that is not cut short
Unlimited == MaxTicks + 1

-----------------------------------------------------------------------------
(* Vectors and boxes (THREE.Vector3, THREE.Box3).                           *)

Abs(n) == IF n < 0 THEN -n ELSE n

Min(a, b) == IF a < b THEN a ELSE b

Max(a, b) == IF a > b THEN a ELSE b

VAdd(a, b) == <<a[1] + b[1], a[2] + b[2], a[3] + b[3]>>

Zero3 == <<0, 0, 0>>

\* Vector3.multiplyScalar by s/1000
multiplyScalar(v, s) == <<(v[1] * s) \div 1000, (v[2] * s) \div 1000, (v[3] * s) \div 1000>>

\* Box3.intersectsBox: touching boxes intersect
intersectsBox(a, b) ==
    \A i \in 1..3 : ~(b.max[i] < a.min[i]) /\ ~(b.min[i] > a.max[i])

\* Box3.setFromObject(character.group)
boundingBox(p) ==
    [min |-> <<p[1] - BodyHalfX, p[2] + BodyMinY, p[3] - BodyHalfZ>>,
     max |-> <<p[1] + BodyHalfX, p[2] + BodyMaxY, p[3] + BodyHalfZ>>]

-----------------------------------------------------------------------------
(* The scene: static box parts, as Part.updateBoundingBox derives them.     *)

Parts == {"floor", "wall", "block"}

\* Part.updateBoundingBox for an unrotated box: position -+ half extents
PartBox(part) ==
    IF part = "floor"
    THEN [min |-> <<-20000, -1000, -2000>>, max |-> <<20000, 0, 1000>>]
    ELSE IF part = "wall"
         THEN [min |-> <<-20000, 0, -2000>>, max |-> <<20000, 8000, -1500>>]
         ELSE [min |-> <<-6000, -6000, -6000>>, max |-> <<6000, 6000, 6000>>]

FloorTop == PartBox("floor").max[2]

\* the elements of a Set kept in insertion order
Elements(seq) == {seq[i] : i \in 1..Len(seq)}

\* Set.add: an element already in the set keeps its place
SetAdd(seq, x) == IF x \in Elements(seq) THEN seq ELSE Append(seq, x)

\* Set.delete without the removal
SetDelete_Keep(seq, x) == seq

\* Set.delete
SetDelete(seq, x) == SelectSeq(seq, LAMBDA y : y # x)

\* the world position of a part's mesh: a child of the group moves with it
meshWorldPosition(part) == IF part \in groupChildren THEN groupPosition ELSE Zero3

\* Group.updateCollisionBoxes: the boxes of the group's collidable parts are
\* recomputed from the group's transform
updateCollisionBoxes(boxes, at) ==
    [p \in Parts |-> IF p \in Elements(groupCollidableParts)
                     THEN (IF p \in groupChildren THEN at ELSE Zero3)
                     ELSE boxes[p]]

\* the boxes the narrow-phase tests of a frame read: checkCollisions calls
\* updateCollisionBoxes on every registered group first
FrameBoxes ==
    IF groups # {} THEN updateCollisionBoxes(boxPosition, groupPosition) ELSE boxPosition

\* part.boundingBox as the frame's checkCollisions reads it
partBoundingBox(part) ==
    [min |-> VAdd(PartBox(part).min, FrameBoxes[part]),
     max |-> VAdd(PartBox(part).max, FrameBoxes[part])]

\* allCollidableParts of checkCollisions: the engine's own set, then the
\* collidable parts of every registered group
allCollidableParts ==
    collidableParts \o (IF groups # {} THEN groupCollidableParts ELSE <<>>)

\* SpawnPoint.getSpawnPosition: 2 units above the spawn point's mesh
getSpawnPosition(sp) == <<sp[1], sp[2] + SpawnHeight, sp[3]>>

-----------------------------------------------------------------------------
(* Character.update: the motion integrator.                                 *)

\* camera.getWorldDirection with y zeroed and normalized: the camera of the
\* Engine constructor and of Engine.spawn looks along -z
cameraDirection == <<0, 0, -1000>>

\* crossVectors((0, 1, 0), cameraDirection).normalize()
cameraRight == <<-1000, 0, 0>>

\* moveVector of one axis: multiplyScalar scales the axis vector in place, so
\* the second flag of an axis scales the already scaled vector
AxisMove(axis, plus, minus) ==
    LET a1 == IF plus THEN multiplyScalar(axis, moveSpeed) ELSE axis
        m1 == IF plus THEN a1 ELSE Zero3
        a2 == IF minus THEN multiplyScalar(a1, -moveSpeed) ELSE a1
    IN  IF minus THEN VAdd(m1, a2) ELSE m1

moveVector(k) ==
    VAdd(AxisMove(cameraDirection, k.w, k.s), AxisMove(cameraRight, k.a, k.d))

\* positionHistory.push(position) without the shift()
PushHistory_NoShift(hist, p) == Append(hist, p)

\* positionHistory.push(position), shift() beyond maxHistoryLength
PushHistory(hist, p) ==
    LET h == Append(hist, p)
    IN  IF Len(h) > maxHistoryLength THEN Tail(h) ELSE h

\* largest r with r * r <= n (Math.sqrt on the integer grid)
ISqrt(n) == CHOOSE r \in 0..(2 * maxVelocity + 1) : r * r <= n /\ (r + 1) * (r + 1) > n

\* velocity.x *= f, velocity.z *= f
Damp(v, f) == <<(v[1] * f) \div 1000, v[2], (v[3] * f) \div 1000>>

\* update without the cap of the horizontal speed
ClampHorizontal_None(v) == v

\* cap of the horizontal speed at maxVelocity
ClampHorizontal(v) ==
    LET h2 == v[1] * v[1] + v[3] * v[3]
    IN  IF h2 > maxVelocity * maxVelocity
        THEN <<(v[1] * maxVelocity) \div ISqrt(h2), v[2], (v[3] * maxVelocity) \div ISqrt(h2)>>
        ELSE v

\* the jump branch taken whenever the jump key is held
CanJump_Airborne(k, grounded) == k.control

\* the jump branch is taken only when the jump key is held on the ground
CanJump(k, grounded) == k.control /\ grounded

\* velocity.y -= gravity without the cap
ApplyGravity_NoCap(vy) == vy - gravity

\* velocity.y -= gravity, capped at -maxFallSpeed
ApplyGravity(vy) == Max(vy - gravity, -maxFallSpeed)

\* Character.update on the body b = [pos, vel, grounded, jumping, hist]
update(b, k) ==
    LET jump == CanJump(k, b.grounded)
        g1   == IF jump THEN FALSE ELSE b.grounded
        j1   == IF jump THEN TRUE ELSE b.jumping
        vy1  == IF jump THEN jumpForce ELSE b.vel[2]
        vy2  == IF ~g1 THEN ApplyGravity(vy1) ELSE vy1
        v2   == <<b.vel[1], vy2, b.vel[3]>>
        v3   == IF ~g1 THEN Damp(v2, airResistance) ELSE Damp(v2, groundFriction)
        v4   == ClampHorizontal(v3)
    IN  [pos      |-> VAdd(b.pos, VAdd(moveVector(k), v4)),
         vel      |-> v4,
         grounded |-> g1,
         jumping  |-> j1,
         hist     |-> PushHistory(b.hist, b.pos)]

-----------------------------------------------------------------------------
(* Engine.checkCollisions and Engine.handleCollision.  The body record also *)
(* carries what the tick saw: tops (the parts classified as top contacts)   *)
(* and sides (the parts that caused a position-history rewind).            *)

\* twice (playerCenter - partCenter), in units of 0.01
CenterDelta(pb, qb) ==
    [i \in 1..3 |-> ((pb.min[i] + pb.max[i]) - (qb.min[i] + qb.max[i])) \div 10]

Norm2(e) == e[1] * e[1] + e[2] * e[2] + e[3] * e[3]

\* |direction[i]| > thr / 10 for direction = normalize(e)
DirAbove(e, i, thr) == 100 * e[i] * e[i] > thr * thr * Norm2(e)

\* isOnTop from the direction alone, without the distance-to-surface test
isOnTop_DirectionOnly(pb, qb, vy) ==
    LET e == CenterDelta(pb, qb)
    IN  e[2] > 0 /\ DirAbove(e, 2, verticalThreshold)

\* isOnTop without the velocity test of the distance-to-surface case
isOnTop_AnyVelocity(pb, qb, vy) ==
    LET e == CenterDelta(pb, qb)
    IN  \/ (e[2] > 0 /\ DirAbove(e, 2, verticalThreshold))
        \/ Abs(pb.min[2] - qb.max[2]) < TopSnapDistance

\* isOnTop of handleCollision
isOnTop(pb, qb, vy) ==
    LET e == CenterDelta(pb, qb)
    IN  \/ (e[2] > 0 /\ DirAbove(e, 2, verticalThreshold))
        \/ (Abs(pb.min[2] - qb.max[2]) < TopSnapDistance /\ vy <= 0)

\* overlapX, overlapY and overlapZ of handleCollision
overlap(pb, qb) ==
    [i \in 1..3 |-> Min(pb.max[i] - qb.min[i], qb.max[i] - pb.min[i])]

\* pushUpAmount of handleCollision: computed, pushed on resolutionAxes and
\* never applied to the position
pushUpAmount(pb, qb) == qb.max[2] - pb.min[2] + CollisionEpsilon

\* the isGrounded value written by the non-top branch
SideGrounded(grounded) == FALSE

\* a rewind to the newest entry instead of the oldest
lastSafePosition_Newest(hist) == hist[Len(hist)]

\* player.positionHistory[0], the entry the rewind restores
lastSafePosition(hist) == hist[1]

handleCollision(b, part) ==
    LET pb  == boundingBox(b.pos)
        qb  == partBoundingBox(part)
        e   == CenterDelta(pb, qb)
        top == isOnTop(pb, qb, b.vel[2])
    IN  IF top
        THEN [b EXCEPT !.grounded = TRUE, !.jumping = FALSE,
                       !.vel = <<b.vel[1], 0, b.vel[3]>>,
                       !.tops = b.tops \cup {part}]
        ELSE IF Len(b.hist) > 0
             THEN [b EXCEPT !.grounded = SideGrounded(b.grounded),
                            !.pos = lastSafePosition(b.hist),
                            !.vel = <<IF DirAbove(e, 1, HorizontalThreshold) THEN 0 ELSE b.vel[1],
                                      b.vel[2],
                                      IF DirAbove(e, 3, HorizontalThreshold) THEN 0 ELSE b.vel[3]>>,
                            !.hist = <<lastSafePosition(b.hist)>>,
                            !.sides = b.sides \cup {part}]
             ELSE [b EXCEPT !.grounded = SideGrounded(b.grounded)]

\* Part.checkCollision without the canCollide test
checkCollision_IgnoreCanCollide(part, b) ==
    intersectsBox(partBoundingBox(part), boundingBox(b.pos))

\* Part.checkCollision(localPlayer): both collidable and the boxes intersect
checkCollision(part, b) ==
    canCollide[part] /\ intersectsBox(partBoundingBox(part), boundingBox(b.pos))

RECURSIVE VisitParts(_, _)
\* the loop over allCollidableParts
VisitParts(b, parts) ==
    IF parts = <<>> THEN b
    ELSE VisitParts(IF checkCollision(Head(parts), b)
                    THEN handleCollision(b, Head(parts)) ELSE b,
                    Tail(parts))

\* checkCollisions without the reset of isGrounded
ResetGrounded_Keep(grounded) == grounded

\* the isGrounded value checkCollisions starts the frame with
ResetGrounded(grounded) == FALSE

checkCollisions(b, parts) ==
    VisitParts([pos |-> b.pos, vel |-> b.vel, grounded |-> ResetGrounded(b.grounded),
                jumping |-> b.jumping, hist |-> b.hist,
                tops |-> {}, sides |-> {}], parts)

\* the safety check of Engine.updateCamera
OutOfBounds(p) == \E i \in 1..3 : Abs(p[i]) > maxAllowedDistance

SafePosition == <<0, 2000, 0>>

\* updateCamera without the safety check
updateCamera_NoReset(p) == p

\* the safety check of Engine.updateCamera
updateCamera(p) == IF OutOfBounds(p) THEN SafePosition ELSE p

-----------------------------------------------------------------------------
(* The health / damage / invulnerability state machine of Character.        *)

\* Character.setHealth: clamp into [0, maxHealth]
setHealth(h, mx) == Max(0, Min(h, mx))

\* takeDamage without the cooldown test on lastDamageTime
DamageBlocked_NoCooldown(inv, t, last, dur) == inv

\* takeDamage without the isInvulnerable test
DamageBlocked_NoInvulnerable(inv, t, last, dur) == t - last < dur

\* the two early returns of Character.takeDamage
DamageBlocked(inv, t, last, dur) == inv \/ (t - last < dur)

\* Math.max(0, health - amount)
DamagedHealth(h, a) == Max(0, h - a)

\* heal without the cap at maxHealth
HealedHealth_Unclamped(h, a, mx) == h + a

\* Math.min(maxHealth, health + amount)
HealedHealth(h, a, mx) == Min(mx, h + a)

\* Character.isDead
isDead(h) == h <= 0

\* respawn onto the spawn point's mesh instead of its spawn position
RespawnPosition_OnMesh(sp) == sp

\* the position respawnPlayer moves the player to
RespawnPosition(sp) == getSpawnPosition(sp)

-----------------------------------------------------------------------------
(* Inputs of the model.                                                     *)

Amounts == {-50, 100}

HealthValues == {0, 200}

Durations == {DefaultInvulnerabilityDuration}

InputKeys == {"w", "control"}

NoKeys == [w |-> FALSE, a |-> FALSE, s |-> FALSE, d |-> FALSE, control |-> FALSE]

\* tick: before (isGrounded when the frame began), tops and sides (the parts
\* handled as top contacts and as rewinds), vyIn (velocity.y after update),
\* dead (the death check found health <= 0)
NoTick == [before |-> FALSE, tops |-> {}, sides |-> {}, vyIn |-> 0, dead |-> FALSE]

\* dmg: the last takeDamage call that returned true was made at dmg.time and
\* setInvulnerable was not called since (open), or there is no such call
NoDamage == [open |-> FALSE, time |-> 0]

Op(name, arg, ret) == [name |-> name, arg |-> arg, ret |-> ret, pre |-> 0]

-----------------------------------------------------------------------------
(* Multiplayer: the mirrors of the remote players and what the client emits. *)

RemoteIds == {"p1", "p2"}

\* how many mirror Characters a run may construct
MaxMirrors == 2

Mirrors == 1..MaxMirrors

\* ids of the sockets opened by the constructor and by the nickname form
SocketIds == <<"me1", "me2">>

NoMirror == [made |-> FALSE, id |-> "", position |-> Zero3, keys |-> NoKeys]

NoPublish == [sent |-> FALSE, position |-> Zero3]

\* Engine.createRemotePlayer(id, position): a new Character is constructed,
\* spawned into the scene and stored under id; m is the mirror state
\* [remotePlayers, mirror, sceneCharacters, full]
createRemotePlayer(m, id, at) ==
    IF \A n \in Mirrors : m.mirror[n].made
    THEN [m EXCEPT !.full = TRUE]
    ELSE LET n == CHOOSE c \in Mirrors :
                      ~m.mirror[c].made /\ \A d \in Mirrors : d < c => m.mirror[d].made
         IN  [remotePlayers   |-> [m.remotePlayers EXCEPT ![id] = n],
              mirror          |-> [m.mirror EXCEPT ![n] = [made |-> TRUE, id |-> id,
                                                           position |-> at, keys |-> NoKeys]],
              sceneCharacters |-> m.sceneCharacters \cup {n},
              full            |-> m.full]

MirrorState ==
    [remotePlayers |-> remotePlayers, mirror |-> mirror,
     sceneCharacters |-> sceneCharacters, full |-> FALSE]

\* players.forEach(player => createRemotePlayer(...)) of the currentPlayers handler
RECURSIVE createRemotePlayers(_, _, _, _)
createRemotePlayers(m, list, own, at) ==
    IF list = <<>> THEN m
    ELSE createRemotePlayers(IF Head(list) # own THEN createRemotePlayer(m, Head(list), at)
                             ELSE m,
                             Tail(list), own, at)

\* the keydown / keyup listeners every constructed Character registered on window
dispatchKey(mr, k, v) ==
    [n \in Mirrors |-> IF mr[n].made THEN [mr[n] EXCEPT !.keys[k] = v] ELSE mr[n]]

\* a publish placed before the death check
publishedPosition_BeforeRespawn(afterCamera, final) == afterCamera

\* the position socket.emit('playerUpdate') reads at the end of animate
publishedPosition(afterCamera, final) == final

-----------------------------------------------------------------------------
(* Operations.                                                              *)

\* Character.takeDamage(a)
TakeDamage(a) ==
    LET blocked == DamageBlocked(isInvulnerable, now, lastDamageTime, invulnerabilityDuration)
        h       == IF blocked THEN health ELSE DamagedHealth(health, a)
    IN  /\ -HealthFloor <= h /\ h <= HealthCap
        /\ health' = h
        /\ lastDamageTime' = IF blocked THEN lastDamageTime ELSE now
        /\ op' = Op("takeDamage", a, ~blocked)
        /\ dmg' = IF blocked THEN dmg ELSE [open |-> TRUE, time |-> now]
        /\ UNCHANGED <<bodyVars, keys, maxHealth, isInvulnerable, invulnerabilityDuration,
                       now, timers, sceneVars, tick, windowEnd>>
        /\ UNCHANGED worldVars

\* Character.heal(a)
Heal(a) ==
    /\ -HealthFloor <= HealedHealth(health, a, maxHealth)
    /\ HealedHealth(health, a, maxHealth) <= HealthCap
    /\ health' = HealedHealth(health, a, maxHealth)
    /\ op' = [name |-> "heal", arg |-> a, ret |-> TRUE, pre |-> health]
    /\ UNCHANGED <<bodyVars, keys, maxHealth, isInvulnerable, invulnerabilityDuration,
                   lastDamageTime, now, timers, sceneVars, tick, dmg, windowEnd>>
    /\ UNCHANGED worldVars

\* Character.setHealth(h)
SetHealth(h) ==
    /\ health' = setHealth(h, maxHealth)
    /\ op' = Op("setHealth", 0, TRUE)
    /\ UNCHANGED <<bodyVars, keys, maxHealth, isInvulnerable, invulnerabilityDuration,
                   lastDamageTime, now, timers, sceneVars, tick, dmg, windowEnd>>
    /\ UNCHANGED worldVars

\* Character.setInvulnerable(d): the flag, the duration and the timeout
SetInvulnerable(d) ==
    /\ isInvulnerable' = TRUE
    /\ invulnerabilityDuration' = d
    /\ timers' = timers \cup {now + d}
    /\ windowEnd' = now + d
    /\ dmg' = NoDamage
    /\ op' = Op("setInvulnerable", 0, TRUE)
    /\ UNCHANGED <<bodyVars, keys, health, maxHealth, lastDamageTime, now, sceneVars, tick>>
    /\ UNCHANGED worldVars

\* the callback of the setTimeout of setInvulnerable
TimerFire(d) ==
    /\ d \in timers
    /\ now >= d
    /\ isInvulnerable' = FALSE
    /\ timers' = timers \ {d}
    /\ op' = Op("timer", 0, TRUE)
    /\ UNCHANGED <<bodyVars, keys, health, maxHealth, invulnerabilityDuration,
                   lastDamageTime, now, sceneVars, tick, dmg, windowEnd>>
    /\ UNCHANGED worldVars

\* the clock of Date.now() moves on
AdvanceTime ==
    /\ now + TimeStep <= StartTime + MaxTime
    /\ now' = now + TimeStep
    /\ op' = Op("advance", 0, TRUE)
    /\ UNCHANGED <<bodyVars, keys, health, maxHealth, isInvulnerable, invulnerabilityDuration,
                   lastDamageTime, timers, sceneVars, tick, dmg, windowEnd>>
    /\ UNCHANGED worldVars

\* a keydown event of a movement key: Character.handleKeyDown of every Character
KeyDown(k) ==
    /\ ~keys[k]
    /\ keys' = [keys EXCEPT ![k] = TRUE]
    /\ mirror' = dispatchKey(mirror, k, TRUE)
    /\ op' = Op("keydown", 0, TRUE)
    /\ UNCHANGED <<bodyVars, healthVars, now, sceneVars, tick, dmg, windowEnd>>
    /\ UNCHANGED <<enableMultiplayer, socket, playerId, remotePlayers, sceneCharacters,
                   published, emitted, serverVars, memberVars, folderVars, toolVars>>

\* a keyup event of a movement key: Character.handleKeyUp of every Character
KeyUp(k) ==
    /\ keys[k]
    /\ keys' = [keys EXCEPT ![k] = FALSE]
    /\ mirror' = dispatchKey(mirror, k, FALSE)
    /\ op' = Op("keyup", 0, TRUE)
    /\ UNCHANGED <<bodyVars, healthVars, now, sceneVars, tick, dmg, windowEnd>>
    /\ UNCHANGED <<enableMultiplayer, socket, playerId, remotePlayers, sceneCharacters,
                   published, emitted, serverVars, memberVars, folderVars, toolVars>>

\* Character.setPosition(x, y, z)
SetPosition(p) ==
    /\ position' = p
    /\ op' = Op("setPosition", 0, TRUE)
    /\ UNCHANGED <<velocity, isGrounded, isJumping, positionHistory, keys, healthVars,
                   now, sceneVars, tick, dmg, windowEnd>>
    /\ UNCHANGED worldVars

\* one frame of Engine.animate with a local player: update, checkCollisions,
\* updateCamera, then the death check and respawnPlayer, then the playerUpdate
\* publish; b1 is the body after update, b2 the body after checkCollisions
Tick ==
    \E b1 \in {update([pos |-> position, vel |-> velocity, grounded |-> isGrounded,
                       jumping |-> isJumping, hist |-> positionHistory], keys)} :
    \E b2 \in {checkCollisions(b1, allCollidableParts)} :
    LET p3   == updateCamera(b2.pos)
        dead == enableHealth /\ isDead(health)
    IN  /\ frames # 0
        /\ velocity' = b2.vel
        /\ isGrounded' = b2.grounded
        /\ isJumping' = b2.jumping
        /\ positionHistory' = b2.hist
        /\ tick' = [before |-> isGrounded, tops |-> b2.tops, sides |-> b2.sides,
                    vyIn |-> b1.vel[2], dead |-> dead]
        /\ op' = Op("tick", 0, TRUE)
        /\ IF dead /\ Len(spawnPoints) # 0
           THEN \E i \in 1..Len(spawnPoints) :
                   /\ position' = RespawnPosition(spawnPoints[i])
                   /\ health' = setHealth(maxHealth, maxHealth)
                   /\ isInvulnerable' = TRUE
                   /\ invulnerabilityDuration' = RespawnInvulnerability
                   /\ timers' = timers \cup {now + RespawnInvulnerability}
                   /\ windowEnd' = now + RespawnInvulnerability
                   /\ dmg' = NoDamage
           ELSE /\ position' = p3
                /\ UNCHANGED <<health, isInvulnerable, invulnerabilityDuration, timers,
                               windowEnd, dmg>>
        /\ frames' = IF frames = Unlimited THEN frames ELSE frames - 1
        /\ IF enableMultiplayer /\ socket # 0
           THEN /\ published' = [sent |-> TRUE,
                                 position |-> publishedPosition(p3, position')]
                /\ emitted' = emitted \cup {"playerUpdate"}
           ELSE UNCHANGED <<published, emitted>>
        /\ boxPosition' = FrameBoxes
        /\ UNCHANGED <<keys, maxHealth, lastDamageTime, now, collidableParts, spawnPoints,
                       enableHealth, canCollide, groups, groupChildren,
                       groupCollidableParts, groupPosition, unregistered>>
        /\ UNCHANGED <<enableMultiplayer, socket, playerId, mirrorVars, serverVars,
                       memberVars, folderVars, toolVars>>

-----------------------------------------------------------------------------
(* Initial states: the character after construction and Engine.spawn.       *)

\* the health fields of Character.properties after construction
InitHealth ==
    /\ health = DefaultMaxHealth
    /\ maxHealth = DefaultMaxHealth
    /\ isInvulnerable = FALSE
    /\ invulnerabilityDuration = DefaultInvulnerabilityDuration
    /\ lastDamageTime = 0
    /\ now = StartTime
    /\ timers = {}
    /\ op = Op("init", 0, TRUE)
    /\ tick = NoTick
    /\ dmg = NoDamage
    /\ windowEnd = 0

InitCharacter ==
    /\ velocity = Zero3
    /\ isGrounded = FALSE
    /\ isJumping = FALSE
    /\ positionHistory = <<>>
    /\ keys = NoKeys
    /\ InitHealth

\* the parts after construction: collidable, no group registered
InitParts ==
    /\ canCollide = [p \in Parts |-> TRUE]
    /\ groups = {}
    /\ groupChildren = {}
    /\ groupCollidableParts = <<>>
    /\ groupPosition = Zero3
    /\ boxPosition = [p \in Parts |-> Zero3]
    /\ unregistered = [p \in Parts |-> "none"]

\* Engine after construction with multiplayer disabled: no socket, no mirror
InitNetOff ==
    /\ enableMultiplayer = FALSE
    /\ socket = 0
    /\ playerId = "null"
    /\ remotePlayers = [id \in RemoteIds |-> 0]
    /\ mirror = [n \in Mirrors |-> NoMirror]
    /\ sceneCharacters = {}
    /\ published = NoPublish
    /\ emitted = {}

\* the relay server before any connection
NoRecord ==
    [created |-> FALSE, health |-> DEFAULT_HEALTH, maxHealth |-> DEFAULT_MAX_HEALTH,
     isDead |-> FALSE, isInvulnerable |-> FALSE, lastDamageTime |-> 0]

InitServer ==
    /\ players = {}
    /\ playerData = [id \in RemoteIds |-> NoRecord]
    /\ serverTimers = [id \in RemoteIds |-> {}]

\* keys of Group.children: the names in use and the key of the unnamed parts
PartNames == Parts \cup {"crate", ""}

MemberKeys == (PartNames \ {""}) \cup {"unnamed"}

NoPart == "null"

\* the Part constructor sets no name; an empty group
InitMembers ==
    /\ partName = [p \in Parts |-> ""]
    /\ children = [k \in MemberKeys |-> NoPart]

Folders == {"A", "B"}

Leaves == {"x"}

\* the clients of one server, each with the same script registered
Clients == {"c1", "c2", "c3"}

InitScripts ==
    /\ scriptRuns = [c \in Clients |-> 0]
    /\ serverInbox = <<>>
    /\ inbox = [c \in Clients |-> 0]

\* the server's clock and its players before any respawn
InitClock ==
    /\ serverNow = StartTime
    /\ serverEmit = {}
    /\ respawnedAt = [id \in RemoteIds |-> 0]

InitFolders == folderChildren = [f \in Folders |-> <<>>]

Hopperbins == {"hammer", "wrench"}

NoHopperbin == "null"

NoPress == [down |-> FALSE, tool |-> NoHopperbin, was |-> FALSE]

\* a Character and the Hopperbins after construction
InitTools ==
    /\ hopperbins = <<>>
    /\ activeHopperbin = NoHopperbin
    /\ isEquipped = [h \in Hopperbins |-> FALSE]
    /\ isActive = [h \in Hopperbins |-> FALSE]
    /\ currentHopperbin = NoHopperbin
    /\ press = NoPress

InitWorld == InitNetOff /\ InitServer /\ InitMembers /\ InitFolders /\ InitScripts /\ InitClock /\ InitTools

\* spawn point meshes on the floor
SpawnA == <<0, -10, 0>>

SpawnB == <<1000, -10, -500>>

\* the health system on a floor, with zero, one or two spawn points
Init ==
    /\ InitCharacter
    /\ InitParts
    /\ InitWorld
    /\ position = <<0, 2000, 0>>
    /\ collidableParts = <<"floor">>
    /\ spawnPoints \in {<<>>, <<SpawnA, SpawnB>>}
    /\ enableHealth = TRUE
    /\ frames = Unlimited

Next ==
    \/ \E a \in Amounts : TakeDamage(a)
    \/ \E a \in Amounts : Heal(a)
    \/ \E h \in HealthValues : SetHealth(h)
    \/ \E d \in Durations : SetInvulnerable(d)
    \/ \E d \in timers : TimerFire(d)
    \/ AdvanceTime
    \/ Tick

Spec == Init /\ [][Next]_vars

\* the body with movement and jump input, between a floor and a wall
Scenes == {<<"floor">>, <<"floor", "wall">>, <<"wall", "floor">>}

StartPositions == {<<0, 2100, -500>>, <<19000, 2000, -700>>}

TeleportTargets == {<<0, 3000, -500>>}

InitPhysics ==
    /\ InitCharacter
    /\ InitParts
    /\ InitWorld
    /\ position \in StartPositions
    /\ collidableParts \in Scenes
    /\ spawnPoints = <<>>
    /\ enableHealth = FALSE
    /\ frames = MaxTicks

NextPhysics ==
    \/ \E k \in InputKeys : KeyDown(k)
    \/ \E k \in InputKeys : KeyUp(k)
    \/ \E p \in TeleportTargets : SetPosition(p)
    \/ Tick

SpecPhysics == InitPhysics /\ [][NextPhysics]_vars

\* Character.update called on its own
Update ==
    \E b1 \in {update([pos |-> position, vel |-> velocity, grounded |-> isGrounded,
                       jumping |-> isJumping, hist |-> positionHistory], keys)} :
        /\ frames # 0
        /\ position' = b1.pos
        /\ velocity' = b1.vel
        /\ isGrounded' = b1.grounded
        /\ isJumping' = b1.jumping
        /\ positionHistory' = b1.hist
        /\ op' = Op("update", 0, TRUE)
        /\ tick' = NoTick
        /\ frames' = IF frames = Unlimited THEN frames ELSE frames - 1
        /\ UNCHANGED <<keys, healthVars, now, collidableParts, spawnPoints, enableHealth,
                       groupVars, dmg, windowEnd>>
        /\ UNCHANGED worldVars

\* Engine.handleCollision(localPlayer, part), called as checkCollisions calls
\* it: for a part whose checkCollision holds
HandleCollision(part) ==
    \E b2 \in {handleCollision([pos |-> position, vel |-> velocity, grounded |-> isGrounded,
                                jumping |-> isJumping, hist |-> positionHistory,
                                tops |-> {}, sides |-> {}], part)} :
        /\ frames # 0
        /\ checkCollision(part, [pos |-> position])
        /\ position' = b2.pos
        /\ velocity' = b2.vel
        /\ isGrounded' = b2.grounded
        /\ isJumping' = b2.jumping
        /\ positionHistory' = b2.hist
        /\ op' = Op("handleCollision", part, TRUE)
        /\ tick' = [NoTick EXCEPT !.tops = b2.tops, !.sides = b2.sides]
        /\ frames' = IF frames = Unlimited THEN frames ELSE frames - 1
        /\ UNCHANGED <<keys, healthVars, now, collidableParts, spawnPoints, enableHealth,
                       groupVars, dmg, windowEnd>>
        /\ UNCHANGED worldVars

\* Engine.addPart(part): scene.add takes the mesh out of a group that held
\* it, addToCollisionSystem registers a collidable part
AddPart(part) ==
    /\ groupChildren' = groupChildren \ {part}
    /\ IF canCollide[part]
       THEN /\ collidableParts' = SetAdd(collidableParts, part)
            /\ boxPosition' = [boxPosition EXCEPT ![part] = Zero3]
            /\ unregistered' = [unregistered EXCEPT ![part] = "none"]
       ELSE UNCHANGED <<collidableParts, boxPosition, unregistered>>
    /\ op' = Op("scene", 0, TRUE)
    /\ UNCHANGED <<bodyVars, keys, healthVars, now, spawnPoints, enableHealth, frames,
                   canCollide, groups, groupCollidableParts, groupPosition, tick, dmg,
                   windowEnd>>
    /\ UNCHANGED worldVars

\* Engine.createGroup / addGroupToCollisionSystem(group)
AddGroupToCollisionSystem ==
    /\ groups = {}
    /\ groups' = {"house"}
    /\ boxPosition' = updateCollisionBoxes(boxPosition, groupPosition)
    /\ unregistered' = [p \in Parts |-> IF p \in Elements(groupCollidableParts)
                                       THEN "none" ELSE unregistered[p]]
    /\ op' = Op("scene", 0, TRUE)
    /\ UNCHANGED <<bodyVars, keys, healthVars, now, collidableParts, spawnPoints,
                   enableHealth, frames, canCollide, groupChildren, groupCollidableParts,
                   groupPosition, tick, dmg, windowEnd>>
    /\ UNCHANGED worldVars

\* child.name || 'unnamed': the key of a part in Group.children
KeyOf(part) == IF partName[part] = "" THEN "unnamed" ELSE partName[part]

\* Group.add(child)
GroupAdd(part) ==
    /\ groupChildren' = groupChildren \cup {part}
    /\ children' = [children EXCEPT ![KeyOf(part)] = part]
    /\ IF canCollide[part]
       THEN /\ groupCollidableParts' = SetAdd(groupCollidableParts, part)
            /\ boxPosition' = [boxPosition EXCEPT ![part] = groupPosition]
            /\ unregistered' = [unregistered EXCEPT ![part] = "none"]
       ELSE UNCHANGED <<groupCollidableParts, boxPosition, unregistered>>
    /\ op' = Op("scene", 0, TRUE)
    /\ UNCHANGED <<bodyVars, keys, healthVars, now, collidableParts, spawnPoints,
                   enableHealth, frames, canCollide, groups, groupPosition, tick, dmg,
                   windowEnd>>
    /\ UNCHANGED <<netVars, serverVars, partName, folderVars, toolVars>>

\* Part.setCanCollide(v)
SetCanCollide(part, v) ==
    /\ canCollide[part] # v
    /\ canCollide' = [canCollide EXCEPT ![part] = v]
    /\ op' = Op("scene", 0, TRUE)
    /\ UNCHANGED <<bodyVars, keys, healthVars, now, collidableParts, spawnPoints,
                   enableHealth, frames, groups, groupChildren, groupCollidableParts,
                   groupPosition, boxPosition, unregistered, tick, dmg, windowEnd>>
    /\ UNCHANGED worldVars

\* Engine.removeFromCollisionSystem(part)
RemoveFromCollisionSystem(part) ==
    /\ collidableParts' = SetDelete(collidableParts, part)
    /\ unregistered' = [unregistered EXCEPT ![part] = "part"]
    /\ op' = Op("scene", 0, TRUE)
    /\ UNCHANGED <<bodyVars, keys, healthVars, now, spawnPoints, enableHealth, frames,
                   canCollide, groups, groupChildren, groupCollidableParts, groupPosition,
                   boxPosition, tick, dmg, windowEnd>>
    /\ UNCHANGED worldVars

\* Engine.removeGroupFromCollisionSystem(group)
RemoveGroupFromCollisionSystem ==
    /\ groups' = {}
    /\ collidableParts' =
           SelectSeq(collidableParts, LAMBDA p : p \notin Elements(groupCollidableParts))
    /\ unregistered' = [p \in Parts |-> IF p \in Elements(groupCollidableParts)
                                       THEN "group" ELSE unregistered[p]]
    /\ op' = Op("scene", 0, TRUE)
    /\ UNCHANGED <<bodyVars, keys, healthVars, now, spawnPoints, enableHealth, frames,
                   canCollide, groupChildren, groupCollidableParts, groupPosition,
                   boxPosition, tick, dmg, windowEnd>>
    /\ UNCHANGED worldVars

\* Group.setPosition(x, y, z)
GroupSetPosition(at) ==
    /\ groupPosition # at
    /\ groupPosition' = at
    /\ boxPosition' = updateCollisionBoxes(boxPosition, at)
    /\ op' = Op("scene", 0, TRUE)
    /\ UNCHANGED <<bodyVars, keys, healthVars, now, collidableParts, spawnPoints,
                   enableHealth, frames, canCollide, groups, groupChildren,
                   groupCollidableParts, unregistered, tick, dmg, windowEnd>>
    /\ UNCHANGED worldVars

\* parts registered, grouped, moved and unregistered around a resting body
SceneParts == {"floor", "wall"}

GroupPositions == {Zero3, <<0, -30, 0>>}

InitScene ==
    /\ InitCharacter
    /\ InitParts
    /\ InitWorld
    /\ position = <<0, 2000, 0>>
    /\ collidableParts = <<>>
    /\ spawnPoints = <<>>
    /\ enableHealth = FALSE
    /\ frames = SceneTicks

NextScene ==
    \/ \E part \in SceneParts : AddPart(part)
    \/ AddGroupToCollisionSystem
    \/ \E part \in SceneParts : GroupAdd(part)
    \/ \E part \in SceneParts, v \in BOOLEAN : SetCanCollide(part, v)
    \/ \E part \in SceneParts : RemoveFromCollisionSystem(part)
    \/ RemoveGroupFromCollisionSystem
    \/ \E at \in GroupPositions : GroupSetPosition(at)
    \/ Tick

SpecScene == InitScene /\ [][NextScene]_vars

\* the integrator and the resolver on their own, from any body state
BodyPositions ==
    {<<0, 2000, -1200>>, <<19000, 2000, -1200>>, <<0, -250, 0>>, <<0, 6000, 3000>>}

BodyVelocities ==
    {Zero3, <<0, -500, 0>>, <<1000, 0, 0>>, <<-600, -200, 800>>, <<100, 300, -100>>}

BodyHistories ==
    {<<>>, <<<<0, 2500, 3000>>>>, <<<<0, 2500, 3000>>, <<0, 2400, 2000>>, <<0, 2300, 1000>>>>}

InitBody ==
    /\ InitHealth
    /\ InitParts
    /\ InitWorld
    /\ isJumping = FALSE
    /\ \E p \in BodyPositions, v \in BodyVelocities, h \in BodyHistories,
          g \in BOOLEAN, k \in {NoKeys, [NoKeys EXCEPT !.control = TRUE]} :
          /\ position = p
          /\ velocity = v
          /\ positionHistory = h
          /\ isGrounded = g
          /\ keys = k
    /\ collidableParts = <<"floor", "wall", "block">>
    /\ spawnPoints = <<>>
    /\ enableHealth = FALSE
    /\ frames = BodySteps

NextBody ==
    \/ Update
    \/ \E part \in Parts : HandleCollision(part)

SpecBody == InitBody /\ [][NextBody]_vars

\* a body at rest above the floor, no input: the frames run forever
RestPositions ==
    {<<0, 2000, 0>>, <<0, 2350, 0>>, <<0, 7000, 0>>, <<19500, 20000, 900>>, <<-20900, 3770, -400>>}

InitRest ==
    /\ InitCharacter
    /\ InitParts
    /\ InitWorld
    /\ position \in RestPositions
    /\ collidableParts \in Scenes
    /\ spawnPoints = <<>>
    /\ enableHealth = FALSE
    /\ frames = Unlimited

NextRest == Tick

SpecRest == InitRest /\ [][NextRest]_vars /\ WF_vars(Tick)

\* a body at rest above the floor with the jump key; the falls end at
\* different depths below the floor's top, at its centre and at its edge
JumpPositions == RestPositions \cup {<<0, 6660, 0>>, <<19500, 6660, 900>>}

InitJump ==
    /\ InitCharacter
    /\ InitParts
    /\ InitWorld
    /\ position \in JumpPositions
    /\ collidableParts \in Scenes
    /\ spawnPoints = <<>>
    /\ enableHealth = FALSE
    /\ frames = Unlimited

NextJump ==
    \/ KeyDown("control")
    \/ KeyUp("control")
    \/ Tick

SpecJump == InitJump /\ [][NextJump]_vars

\* the walking body relocated by setPosition to a place next to the wall
NearWall == {<<0, 2000, -900>>, <<3000, 2000, -1100>>}

NextRelocate ==
    \/ KeyDown("w")
    \/ KeyUp("w")
    \/ \E p \in NearWall : SetPosition(p)
    \/ Tick

SpecRelocate == InitPhysics /\ [][NextRelocate]_vars

\* the integrator under every combination of the four movement flags
MoveKeys == {"w", "a", "s", "d"}

InitInput ==
    /\ InitCharacter
    /\ InitParts
    /\ InitWorld
    /\ position = SafePosition
    /\ collidableParts = <<"floor">>
    /\ spawnPoints = <<>>
    /\ enableHealth = FALSE
    /\ frames = BodySteps

NextInput ==
    \/ \E k \in MoveKeys : KeyDown(k)
    \/ \E k \in MoveKeys : KeyUp(k)
    \/ Update

SpecInput == InitInput /\ [][NextInput]_vars

\* a body that walks along -z over the floor toward an obstacle: the wall, or
\* the block placed as a step whose top is 0.5 above the floor
StepPosition == <<0, -5500, -7000>>

WalkScenes == {<<"floor", "wall">>, <<"floor", "block">>, <<"block", "floor">>}

WalkStarts == {<<0, 2000, -300>>, <<3000, 2000, -200>>, <<0, 2300, -700>>}

InitWalk ==
    /\ InitCharacter
    /\ canCollide = [p \in Parts |-> TRUE]
    /\ groups = {}
    /\ groupChildren = {}
    /\ groupCollidableParts = <<>>
    /\ groupPosition = Zero3
    /\ boxPosition = [p \in Parts |-> IF p = "block" THEN StepPosition ELSE Zero3]
    /\ unregistered = [p \in Parts |-> "none"]
    /\ InitWorld
    /\ position \in WalkStarts
    /\ collidableParts \in WalkScenes
    /\ spawnPoints = <<>>
    /\ enableHealth = FALSE
    /\ frames = MaxTicks

NextWalk ==
    \/ KeyDown("w")
    \/ KeyUp("w")
    \/ Tick

SpecWalk == InitWalk /\ [][NextWalk]_vars

-----------------------------------------------------------------------------
(* The multiplayer client: sockets, the handlers of the inbound events and   *)
(* the mirrors they keep.                                                    *)

\* handleSubmit of the nickname form: initializeMultiplayer opens a second
\* socket with its own set of handlers beside the one the constructor opened
NicknameSubmit ==
    /\ enableMultiplayer
    /\ socket = 1
    /\ socket' = socket + 1
    /\ op' = Op("nickname", 0, TRUE)
    /\ UNCHANGED <<bodyVars, keys, healthVars, now, sceneVars, tick, dmg, windowEnd>>
    /\ UNCHANGED <<enableMultiplayer, playerId, mirrorVars, published, emitted,
                   serverVars, memberVars, folderVars, toolVars>>

\* socket.on('connect') of socket s
Connect(s) ==
    /\ s \in 1..socket
    /\ playerId # SocketIds[s]
    /\ playerId' = SocketIds[s]
    /\ op' = Op("connect", s, TRUE)
    /\ UNCHANGED <<bodyVars, keys, healthVars, now, sceneVars, tick, dmg, windowEnd>>
    /\ UNCHANGED <<enableMultiplayer, socket, mirrorVars, published, emitted,
                   serverVars, memberVars, folderVars, toolVars>>

\* socket.on('playerJoined') of one socket
PlayerJoined(id, at) ==
    \E m \in {IF id # playerId THEN createRemotePlayer(MirrorState, id, at)
              ELSE MirrorState} :
        /\ socket # 0
        /\ ~m.full
        /\ remotePlayers' = m.remotePlayers
        /\ mirror' = m.mirror
        /\ sceneCharacters' = m.sceneCharacters
        /\ op' = Op("playerJoined", id, TRUE)
        /\ UNCHANGED <<bodyVars, keys, healthVars, now, sceneVars, tick, dmg, windowEnd>>
        /\ UNCHANGED <<enableMultiplayer, socket, playerId, published, emitted,
                       serverVars, memberVars, folderVars, toolVars>>

\* socket.on('currentPlayers') of one socket
CurrentPlayers(list, at) ==
    \E m \in {createRemotePlayers(MirrorState, list, playerId, at)} :
        /\ socket # 0
        /\ ~m.full
        /\ remotePlayers' = m.remotePlayers
        /\ mirror' = m.mirror
        /\ sceneCharacters' = m.sceneCharacters
        /\ op' = Op("currentPlayers", list, TRUE)
        /\ UNCHANGED <<bodyVars, keys, healthVars, now, sceneVars, tick, dmg, windowEnd>>
        /\ UNCHANGED <<enableMultiplayer, socket, playerId, published, emitted,
                       serverVars, memberVars, folderVars, toolVars>>

\* socket.on('playerUpdate') of one socket: Engine.updateRemotePlayer
PlayerUpdate(id, at) ==
    /\ socket # 0
    /\ mirror' = IF id # playerId /\ remotePlayers[id] # 0
                 THEN [mirror EXCEPT ![remotePlayers[id]].position = at]
                 ELSE mirror
    /\ op' = Op("playerUpdate", id, TRUE)
    /\ UNCHANGED <<bodyVars, keys, healthVars, now, sceneVars, tick, dmg, windowEnd>>
    /\ UNCHANGED <<enableMultiplayer, socket, playerId, remotePlayers, sceneCharacters,
                   published, emitted, serverVars, memberVars, folderVars, toolVars>>

\* socket.on('playerLeft') of one socket: Engine.removeRemotePlayer
PlayerLeft(id) ==
    /\ socket # 0
    /\ IF remotePlayers[id] # 0
       THEN /\ sceneCharacters' = sceneCharacters \ {remotePlayers[id]}
            /\ remotePlayers' = [remotePlayers EXCEPT ![id] = 0]
       ELSE UNCHANGED <<remotePlayers, sceneCharacters>>
    /\ op' = Op("playerLeft", id, TRUE)
    /\ UNCHANGED <<bodyVars, keys, healthVars, now, sceneVars, tick, dmg, windowEnd>>
    /\ UNCHANGED <<enableMultiplayer, socket, playerId, mirror, published, emitted,
                   serverVars, memberVars, folderVars, toolVars>>

\* Engine after construction with multiplayer enabled: the constructor opened
\* the first socket and Engine.spawn announced the player
InitNetOn ==
    /\ enableMultiplayer = TRUE
    /\ socket = 1
    /\ playerId = "null"
    /\ remotePlayers = [id \in RemoteIds |-> 0]
    /\ mirror = [n \in Mirrors |-> NoMirror]
    /\ sceneCharacters = {}
    /\ published = NoPublish
    /\ emitted = {"playerSpawned"}

\* a multiplayer client on a floor while remote players come, move and go
NetTicks == 1

JoinPosition == <<0, 2000, 0>>

MirrorPositions == {<<1000, 2000, 0>>}

PlayerLists == {<<"p1">>, <<"p1", "p2">>}

NetKeys == {"w"}

InitNet ==
    /\ InitCharacter
    /\ InitParts
    /\ InitNetOn /\ InitServer /\ InitMembers /\ InitFolders /\ InitScripts /\ InitClock /\ InitTools
    /\ position = <<0, 2000, 0>>
    /\ collidableParts = <<"floor">>
    /\ spawnPoints = <<>>
    /\ enableHealth = FALSE
    /\ frames = NetTicks

NextNet ==
    \/ NicknameSubmit
    \/ \E s \in 1..2 : Connect(s)
    \/ \E id \in RemoteIds : PlayerJoined(id, JoinPosition)
    \/ \E list \in PlayerLists : CurrentPlayers(list, JoinPosition)
    \/ \E id \in RemoteIds, at \in MirrorPositions : PlayerUpdate(id, at)
    \/ \E id \in RemoteIds : PlayerLeft(id)
    \/ \E k \in NetKeys : KeyDown(k)
    \/ \E k \in NetKeys : KeyUp(k)
    \/ Tick

SpecNet == InitNet /\ [][NextNet]_vars

\* a multiplayer client with health on a floor: damage, teleports to the
\* sanity radius and just beyond it, and the frames that publish
PublishTicks == 4

FarTargets == {<<maxAllowedDistance, 2000, 0>>, <<maxAllowedDistance + 10, 2000, 0>>}

InitPublish ==
    /\ InitCharacter
    /\ InitParts
    /\ InitNetOn /\ InitServer /\ InitMembers /\ InitFolders /\ InitScripts /\ InitClock /\ InitTools
    /\ position = <<0, 2000, 0>>
    /\ collidableParts = <<"floor">>
    /\ spawnPoints = <<SpawnA, SpawnB>>
    /\ enableHealth = TRUE
    /\ frames = PublishTicks

NextPublish ==
    \/ TakeDamage(DefaultMaxHealth)
    \/ \E p \in FarTargets : SetPosition(p)
    \/ \E k \in NetKeys : KeyDown(k)
    \/ \E k \in NetKeys : KeyUp(k)
    \/ Tick

SpecPublish == InitPublish /\ [][NextPublish]_vars /\ WF_vars(NextPublish)

-----------------------------------------------------------------------------
(* Properties.                                                              *)

SpawnPositions == {getSpawnPosition(spawnPoints[i]) : i \in 1..Len(spawnPoints)}

BodyBottom == boundingBox(position).min[2]

\* C1: after every takeDamage, heal, setHealth and respawn, health lies in
\* [0, maxHealth], for any integer amounts.
C1_HealthBounds == 0 <= health /\ health <= maxHealth

\* no damage was taken and setInvulnerable was never called
FreshBody == lastDamageTime = 0 /\ windowEnd = 0 /\ ~isInvulnerable

\* C2: a takeDamage call on a fresh body returns true, lowers the health and
\* stamps lastDamageTime; a takeDamage call made less than
\* invulnerabilityDuration ms after a call that returned true, with no
\* setInvulnerable in between, returns false and leaves health and
\* lastDamageTime unchanged.
C2_DamageCooldown ==
    [][op'.name = "takeDamage" =>
          /\ FreshBody =>
                /\ op'.ret = TRUE
                /\ health' = Max(0, health - op'.arg)
                /\ (op'.arg > 0 /\ health > 0) => health' < health
                /\ lastDamageTime' = now
          /\ (dmg.open /\ now - dmg.time < invulnerabilityDuration) =>
                /\ op'.ret = FALSE
                /\ health' = health
                /\ lastDamageTime' = lastDamageTime]_vars

\* the second of two calls on a fresh body was rejected inside the cooldown
C2_Witness ==
    /\ op.name = "takeDamage"
    /\ op.ret = FALSE
    /\ op.arg > 0
    /\ windowEnd = 0
    /\ dmg.open
    /\ now - dmg.time < invulnerabilityDuration
    /\ health < maxHealth

\* C3: while isInvulnerable is true, takeDamage returns false and leaves
\* health, lastDamageTime and isInvulnerable unchanged, whatever the amount
\* and the time since the last damage.
C3_InvulnerableNoDamage ==
    [][(op'.name = "takeDamage" /\ isInvulnerable) =>
          /\ op'.ret = FALSE
          /\ UNCHANGED <<health, lastDamageTime, isInvulnerable>>]_vars

\* a positive damage was rejected by the flag alone, the cooldown being over
C3_Witness ==
    /\ op.name = "takeDamage"
    /\ op.ret = FALSE
    /\ op.arg > 0
    /\ isInvulnerable
    /\ health > 0
    /\ now - lastDamageTime >= invulnerabilityDuration

\* C4: inside the window [t, t + d) of the latest setInvulnerable(d) call
\* isInvulnerable is true, also when the timer of an earlier call fires; once
\* the window is over and every timer has fired it is false.
C4_WindowHolds ==
    /\ now < windowEnd => isInvulnerable
    /\ (windowEnd # 0 /\ now >= windowEnd /\ timers = {}) => ~isInvulnerable

\* a frame that found the player dead left it respawned
Respawned ==
    /\ health = maxHealth
    /\ position \in SpawnPositions
    /\ isInvulnerable

\* C5 as stated: every frame that finds the player dead ends with
\* health = maxHealth, the position on a spawn position and isInvulnerable.
C5_AlwaysRespawns == (op.name = "tick" /\ tick.dead) => Respawned

\* C5: every frame that finds the player dead ends respawned when the engine
\* has at least one spawn point; with no spawn point the frame leaves the
\* health as it was.
C5_RespawnsAtSpawnPoint ==
    (op.name = "tick" /\ tick.dead) =>
        IF Len(spawnPoints) # 0 THEN Respawned ELSE isDead(health)

\* a dead player was moved to the second spawn point
C5_Witness ==
    /\ op.name = "tick"
    /\ tick.dead
    /\ position = getSpawnPosition(SpawnB)
    /\ health = maxHealth
    /\ isInvulnerable

\* C6: heal(a) sets health to min(maxHealth, health + a), invulnerable or
\* not, and leaves lastDamageTime, isInvulnerable and
\* invulnerabilityDuration unchanged.
C6_HealClamps ==
    [][op'.name = "heal" =>
          /\ health' = Min(maxHealth, health + op'.arg)
          /\ UNCHANGED <<lastDamageTime, isInvulnerable, invulnerabilityDuration>>]_vars

\* an invulnerable body inside the cooldown was healed past maxHealth
C6_Witness ==
    /\ op.name = "heal"
    /\ op.pre > 0
    /\ op.pre + op.arg > maxHealth
    /\ health = maxHealth
    /\ isInvulnerable
    /\ now - lastDamageTime < invulnerabilityDuration

\* C7: isGrounded is true only if a part was classified as a top contact in
\* the last frame's checkCollisions.
C7_GroundedNeedsTopContact == isGrounded => tick.tops # {}

\* a frame began grounded, made no jump, met no top contact and ended airborne
C7_Witness ==
    /\ op.name = "tick"
    /\ tick.before
    /\ ~isJumping
    /\ tick.tops = {}
    /\ ~isGrounded

\* C8: a frame in which a body falling at -maxFallSpeed meets the floor as a
\* top contact ends grounded with the box bottom at the floor top plus the
\* epsilon, never below the floor top.
C8_SnapsToFloorTop ==
    (op.name = "tick" /\ "floor" \in tick.tops /\ tick.vyIn = -maxFallSpeed) =>
        /\ BodyBottom = FloorTop + CollisionEpsilon
        /\ BodyBottom >= FloorTop
        /\ isGrounded

\* C9: a body at rest above the floor, without input, is eventually grounded
\* for good, and a grounded frame is followed by a grounded frame at the same
\* position.
C9_SettlesOnFloor ==
    /\ <>[]isGrounded
    /\ [][isGrounded => (isGrounded' /\ position' = position)]_vars

\* the body fell, landed and has rested for three frames
C9_Witness ==
    /\ op.name = "tick"
    /\ isGrounded
    /\ velocity = Zero3
    /\ positionHistory = <<position, position, position>>
    /\ BodyBottom < FloorTop

\* C10: a frame that handles both a top contact and a side contact (a
\* rewind) ends grounded, whichever part is visited first.
C10_TopAndSideEndsGrounded ==
    (op.name = "tick" /\ tick.tops # {} /\ tick.sides # {}) => isGrounded

\* the parts in the opposite visiting order
Reverse(parts) == [i \in 1..Len(parts) |-> parts[Len(parts) + 1 - i]]

\* the body state the next frame's checkCollisions leaves when it visits parts
ResolvedBody(parts) ==
    LET b == checkCollisions(update([pos |-> position, vel |-> velocity,
                                     grounded |-> isGrounded, jumping |-> isJumping,
                                     hist |-> positionHistory], keys), parts)
    IN  <<b.pos, b.vel, b.grounded, b.jumping, b.hist>>

\* C11: for a fixed body and a fixed set of candidates, checkCollisions leaves
\* the same position, velocity, isGrounded, isJumping and positionHistory
\* whichever order the candidates are visited in.
C11_OrderIndependent ==
    ResolvedBody(allCollidableParts) = ResolvedBody(Reverse(allCollidableParts))

\* the part handleCollision was last called with, and its direction vector
Direction == CenterDelta(boundingBox(position), partBoundingBox(op'.arg))

\* C12: handleCollision on a non-top contact with a non-empty positionHistory
\* moves the body to the oldest history entry, zeroes velocity.x (velocity.z)
\* exactly when |direction.x| > 0.1 (|direction.z| > 0.1), leaves a negative
\* velocity.y unchanged and leaves the history holding the restored position
\* alone.
C12_RewindRestoresOldest ==
    [][(/\ op'.name = "handleCollision"
        /\ ~isOnTop(boundingBox(position), partBoundingBox(op'.arg), velocity[2])
        /\ Len(positionHistory) > 0) =>
          /\ position' = positionHistory[1]
          /\ velocity'[1] = IF 100 * Direction[1] * Direction[1] > Norm2(Direction)
                            THEN 0 ELSE velocity[1]
          /\ velocity'[3] = IF 100 * Direction[3] * Direction[3] > Norm2(Direction)
                            THEN 0 ELSE velocity[3]
          /\ (velocity[2] < 0 => velocity'[2] = velocity[2])
          /\ positionHistory' = <<positionHistory[1]>>]_vars

\* a falling body with three history entries was rewound to the oldest one,
\* losing velocity.z and keeping velocity.x
C12_Witness ==
    /\ op.name = "handleCollision"
    /\ tick.sides = {"wall"}
    /\ position = <<0, 2500, 3000>>
    /\ positionHistory = <<position>>
    /\ velocity = <<-600, -200, 0>>

\* the smallest of the three overlaps of the body's box with a part's box
Penetration(part) ==
    LET o == overlap(boundingBox(position), partBoundingBox(part))
    IN  Min(o[1], Min(o[2], o[3]))

\* the body's own size: the height of its box
SanityBound == BodyMaxY - BodyMinY

\* C13: when the penetration into a candidate exceeds the body's own size,
\* handleCollision leaves position, velocity and positionHistory unchanged.
C13_SkipsDeepPenetration ==
    [][(op'.name = "handleCollision" /\ Penetration(op'.arg) > SanityBound) =>
          UNCHANGED <<position, velocity, positionHistory>>]_vars

\* C14: positionHistory never holds more than 3 entries, and update pushes
\* exactly one entry, the position the tick began with, dropping the oldest
\* entry of a full history.
C14_HistoryBounded ==
    [][/\ Len(positionHistory') <= 3
       /\ op'.name = "update" =>
             /\ Len(positionHistory') = Min(Len(positionHistory) + 1, 3)
             /\ positionHistory'[Len(positionHistory')] = position
             /\ \A i \in 1..(Len(positionHistory') - 1) :
                   positionHistory'[i] =
                       positionHistory[i + Len(positionHistory) + 1 - Len(positionHistory')]]_vars

\* update pushed onto a full history and then moved the body
C14_Witness ==
    /\ op.name = "update"
    /\ Len(positionHistory) = 3
    /\ positionHistory[1] = <<0, 2400, 2000>>
    /\ positionHistory[3] # position

\* the squared horizontal speed
Speed2(v) == v[1] * v[1] + v[3] * v[3]

\* C15: after every update the horizontal speed is at most maxVelocity, and a
\* body that enters with horizontal speed 2 * maxVelocity leaves with speed
\* maxVelocity in the same direction.
C15_SpeedClamped ==
    [][op'.name = "update" =>
          /\ Speed2(velocity') <= maxVelocity * maxVelocity
          /\ Speed2(velocity) = 4 * maxVelocity * maxVelocity =>
                /\ Speed2(velocity') = maxVelocity * maxVelocity
                /\ velocity'[1] * velocity[3] = velocity'[3] * velocity[1]
                /\ velocity'[1] * velocity[1] >= 0
                /\ velocity'[3] * velocity[3] >= 0]_vars

\* a diagonal velocity of twice maxVelocity was clamped to maxVelocity
C15_Witness ==
    /\ op.name = "update"
    /\ velocity[1] = -300
    /\ velocity[3] = 400

\* C16: the update of a frame raises velocity.y (to jumpForce, less the
\* gravity of the same update) only when the jump key is held and the frame
\* began grounded; a frame that begins airborne never raises velocity.y.
C16_JumpOnlyFromGround ==
    [][op'.name = "tick" =>
          /\ tick'.vyIn > velocity[2] =>
                /\ keys.control
                /\ isGrounded
                /\ tick'.vyIn = jumpForce - gravity
          /\ ~isGrounded => tick'.vyIn <= velocity[2]]_vars

\* after a jump from the floor, a frame that began airborne with the jump key
\* held lowered velocity.y
C16_Witness ==
    /\ op.name = "tick"
    /\ keys.control
    /\ ~tick.before
    /\ isJumping
    /\ velocity[2] > 0
    /\ velocity[2] < jumpForce - gravity

\* the parts in the candidate list of a frame's checkCollisions
Candidates == Elements(allCollidableParts)

\* the parts the last frame passed to handleCollision
Handled == tick.tops \cup tick.sides

C18_ExclusiveOwnership ==
    /\ Elements(collidableParts) \cap Elements(groupCollidableParts) = {}
    /\ Cardinality(Candidates) = Len(allCollidableParts)

\* a registered group holds the part in its collidable set
HeldByGroup(p) == groups # {} /\ p \in Elements(groupCollidableParts)

C20_GroupBoxesFresh ==
    (op.name = "tick" /\ groups # {}) =>
        \A p \in Candidates \cap groupChildren :
            canCollide[p] => boxPosition[p] = meshWorldPosition(p)

-----------------------------------------------------------------------------
(* The frame of Engine.animate seen from the network, and the mirrors.      *)

\* the body a frame starts from
FrameBody ==
    [pos |-> position, vel |-> velocity, grounded |-> isGrounded,
     jumping |-> isJumping, hist |-> positionHistory]

\* the body after one Character.update and then one Engine.checkCollisions
Resolved == checkCollisions(update(FrameBody, keys), allCollidableParts)

\* the death check of the frame finds the player dead and a spawn point exists
Respawns == enableHealth /\ isDead(health) /\ Len(spawnPoints) # 0

\* C21: in every frame with a connected multiplayer client, update runs once
\* and before checkCollisions (the frame leaves the velocity, the history and
\* the grounded flag of checkCollisions applied to one update), the death
\* check and respawn come after them, and the playerUpdate published last
\* carries the position left by collision resolution and respawn.
C21_TickOrder ==
    [][op'.name = "tick" /\ enableMultiplayer /\ socket # 0 =>
          /\ velocity' = Resolved.vel
          /\ positionHistory' = Resolved.hist
          /\ isGrounded' = Resolved.grounded
          /\ tick'.vyIn = update(FrameBody, keys).vel[2]
          /\ tick'.dead = (enableHealth /\ isDead(health))
          /\ ~Respawns => position' = updateCamera(Resolved.pos)
          /\ Respawns => position' \in SpawnPositions
          /\ published' = [sent |-> TRUE, position |-> position']
          /\ "playerUpdate" \in emitted']_vars

\* a frame respawned the player away from where collision resolution left the
\* body, and published the respawn position
C21_Witness ==
    /\ op.name = "tick"
    /\ tick.dead
    /\ position = getSpawnPosition(SpawnB)
    /\ published = [sent |-> TRUE, position |-> getSpawnPosition(SpawnB)]
    /\ Len(positionHistory) > 0
    /\ positionHistory[Len(positionHistory)] # position

\* C22: a frame whose updateCamera finds a coordinate of the position beyond
\* maxAllowedDistance resets the position to (0, 2, 0), and the position
\* updateCamera leaves has every coordinate within maxAllowedDistance.
C22_OutOfBoundsReset ==
    [][op'.name = "tick" /\ ~Respawns =>
          /\ OutOfBounds(Resolved.pos) => position' = SafePosition
          /\ \A i \in 1..3 : Abs(position'[i]) <= maxAllowedDistance]_vars

\* a frame found the body beyond the radius and reset it
C22_Witness ==
    /\ op.name = "tick"
    /\ position = SafePosition
    /\ Len(positionHistory) > 0
    /\ OutOfBounds(positionHistory[Len(positionHistory)])

\* C23: the state of the mirror Characters is changed only by the handlers of
\* the inbound network events: a local keydown, a local keyup and a frame
\* leave every mirror as it was.
C23_MirrorsOnlyByNetwork ==
    [][op'.name \in {"keydown", "keyup", "tick"} => UNCHANGED mirrorVars]_vars

\* the mirrors of id that the scene holds
SceneMirrors(id) == {n \in sceneCharacters : mirror[n].id = id}

\* C24: after every sequence of playerJoined, currentPlayers, playerUpdate and
\* playerLeft events the scene holds at most one mirror per remote id, that
\* mirror is the one stored in remotePlayers, and after playerLeft(id) the
\* scene holds no mirror of id.
C24_OneMirrorPerId ==
    \A id \in RemoteIds :
        /\ Cardinality(SceneMirrors(id)) <= 1
        /\ SceneMirrors(id) = {remotePlayers[id]} \ {0}
        /\ (op.name = "playerLeft" /\ op.arg = id) => SceneMirrors(id) = {}

\* C26: with multiplayer enabled and a socket, every respawn of the local
\* player is followed by a published playerRespawned event (and every health
\* change by a published healthUpdate event).
C26_RespawnPublished ==
    (op.name = "tick" /\ tick.dead /\ Respawned /\ enableMultiplayer /\ socket # 0)
        ~> ("playerRespawned" \in emitted)

-----------------------------------------------------------------------------
(* The relay server: player records and their invulnerability timeouts.     *)

\* INVULNERABILITY_DURATION timeouts one record may have pending
MaxServerTimers == 2

\* how far the server's clock runs
ServerMaxTime == 3000

\* the health values a healthUpdate may carry
ServerHealths == {-20, 40, 130}

\* socket.on('playerSpawned'): a record is stored under socket.id; a client
\* emits playerSpawned once, from Engine.spawn
ServerPlayerSpawned(id) ==
    /\ ~playerData[id].created
    /\ players' = players \cup {id}
    /\ playerData' = [playerData EXCEPT ![id] = [NoRecord EXCEPT !.created = TRUE]]
    /\ serverEmit' = {"playerJoined", "currentPlayers"}
    /\ op' = Op("playerSpawned", id, TRUE)
    /\ UNCHANGED <<bodyVars, keys, healthVars, now, sceneVars, tick, dmg, windowEnd>>
    /\ UNCHANGED <<netVars, serverTimers, memberVars, folderChildren, scriptVars,
                   serverNow, respawnedAt, toolVars>>

\* the record after playerRespawned, without the write of lastDamageTime
respawnRecord_KeepDamageTime(r, t) ==
    [r EXCEPT !.health = r.maxHealth, !.isDead = FALSE, !.isInvulnerable = TRUE]

\* the record after playerRespawned at time t
respawnRecord(r, t) ==
    [r EXCEPT !.health = r.maxHealth, !.isDead = FALSE, !.isInvulnerable = TRUE,
              !.lastDamageTime = t]

\* socket.on('playerRespawned'): the record is reset and turns invulnerable,
\* the respawn is broadcast and a timeout holding the record is started
ServerPlayerRespawned(id) ==
    /\ Cardinality(serverTimers[id]) < MaxServerTimers
    /\ IF id \in players
       THEN /\ playerData' = [playerData EXCEPT ![id] = respawnRecord(@, serverNow)]
            /\ serverTimers' = [serverTimers EXCEPT
                                   ![id] = @ \cup {serverNow + INVULNERABILITY_DURATION}]
            /\ serverEmit' = {"playerRespawned"}
            /\ respawnedAt' = [respawnedAt EXCEPT ![id] = serverNow]
       ELSE /\ serverEmit' = {}
            /\ UNCHANGED <<playerData, serverTimers, respawnedAt>>
    /\ op' = Op("playerRespawned", id, id \in players)
    /\ UNCHANGED <<bodyVars, keys, healthVars, now, sceneVars, tick, dmg, windowEnd>>
    /\ UNCHANGED <<netVars, players, memberVars, folderChildren, scriptVars, serverNow,
                   toolVars>>

\* the tests that make the healthUpdate handler return early
healthUpdateDropped(r, t) ==
    r.isInvulnerable \/ t - r.lastDamageTime < INVULNERABILITY_DURATION

\* the record after an accepted healthUpdate carrying h at time t
healthRecord(r, h, t) ==
    [r EXCEPT !.health = Max(0, Min(h, r.maxHealth)),
              !.lastDamageTime = t,
              !.isDead = Max(0, Min(h, r.maxHealth)) <= 0]

\* socket.on('healthUpdate') with data.health = h
ServerHealthUpdate(id, h) ==
    LET accepted == id \in players /\ ~healthUpdateDropped(playerData[id], serverNow)
    IN  /\ IF accepted
           THEN /\ playerData' = [playerData EXCEPT ![id] = healthRecord(@, h, serverNow)]
                /\ serverEmit' = {"healthUpdate"} \cup
                                  (IF healthRecord(playerData[id], h, serverNow).isDead
                                   THEN {"playerDied"} ELSE {})
           ELSE /\ serverEmit' = {}
                /\ UNCHANGED playerData
        /\ op' = Op("healthUpdate", id, accepted)
        /\ UNCHANGED <<bodyVars, keys, healthVars, now, sceneVars, tick, dmg, windowEnd>>
        /\ UNCHANGED <<netVars, players, serverTimers, memberVars, folderChildren,
                       scriptVars, serverNow, respawnedAt, toolVars>>

\* socket.on('disconnect'): the record leaves the players Map
ServerDisconnect(id) ==
    /\ id \in players
    /\ players' = players \ {id}
    /\ serverEmit' = {"playerLeft"}
    /\ op' = Op("disconnect", id, TRUE)
    /\ UNCHANGED <<bodyVars, keys, healthVars, now, sceneVars, tick, dmg, windowEnd>>
    /\ UNCHANGED <<netVars, playerData, serverTimers, memberVars, folderChildren,
                   scriptVars, serverNow, respawnedAt, toolVars>>

\* the callback of the setTimeout of playerRespawned: playerData is the record
\* the closure holds, which is truthy whether or not the Map still has it
ServerTimerFire(id) ==
    \E d \in serverTimers[id] :
        /\ serverNow >= d
        /\ playerData' = [playerData EXCEPT ![id].isInvulnerable = FALSE]
        /\ serverTimers' = [serverTimers EXCEPT ![id] = @ \ {d}]
        /\ op' = Op("serverTimer", id, TRUE)
        /\ UNCHANGED <<bodyVars, keys, healthVars, now, sceneVars, tick, dmg, windowEnd>>
        /\ UNCHANGED <<netVars, players, memberVars, folderChildren, scriptVars, clockVars,
                       toolVars>>

\* the server's Date.now() moves on
ServerAdvance ==
    /\ serverNow + TimeStep <= StartTime + ServerMaxTime
    /\ serverNow' = serverNow + TimeStep
    /\ op' = Op("serverAdvance", 0, TRUE)
    /\ UNCHANGED <<bodyVars, keys, healthVars, now, sceneVars, tick, dmg, windowEnd>>
    /\ UNCHANGED <<netVars, serverVars, memberVars, folderChildren, scriptVars, serverEmit,
                   respawnedAt, toolVars>>

InitRelay ==
    /\ InitCharacter
    /\ InitParts
    /\ InitWorld
    /\ position = <<0, 2000, 0>>
    /\ collidableParts = <<"floor">>
    /\ spawnPoints = <<>>
    /\ enableHealth = TRUE
    /\ frames = 0

NextRelay ==
    \/ \E id \in RemoteIds : ServerPlayerSpawned(id)
    \/ \E id \in RemoteIds : ServerPlayerRespawned(id)
    \/ \E id \in RemoteIds, h \in ServerHealths : ServerHealthUpdate(id, h)
    \/ \E id \in RemoteIds : ServerDisconnect(id)
    \/ \E id \in RemoteIds : ServerTimerFire(id)
    \/ ServerAdvance

SpecRelay == InitRelay /\ [][NextRelay]_vars

\* C25: an invulnerability timer that fires after its owner is gone (here the
\* player record deleted on disconnect) changes no state.
C25_StaleTimerIsNoOp ==
    [][op'.name = "serverTimer" /\ op'.arg \notin players => playerData' = playerData]_vars

-----------------------------------------------------------------------------
(* Group membership: Group.children is keyed by the name of the part,       *)
(* Group.collidableParts holds the part objects.                            *)

\* Group.getChildren()
getChildren == {children[k] : k \in MemberKeys} \ {NoPart}

\* Group.getCollidableParts()
getCollidableParts == Elements(groupCollidableParts)

\* Group.remove(child), by object
GroupRemove(child) ==
    /\ groupChildren' = groupChildren \ {child}
    /\ children' = [children EXCEPT ![KeyOf(child)] = NoPart]
    /\ groupCollidableParts' = SetDelete(groupCollidableParts, child)
    /\ op' = Op("groupRemove", child, TRUE)
    /\ UNCHANGED <<bodyVars, keys, healthVars, now, collidableParts, spawnPoints,
                   enableHealth, frames, canCollide, groups, groupPosition, boxPosition,
                   unregistered, tick, dmg, windowEnd>>
    /\ UNCHANGED <<netVars, serverVars, partName, folderVars, toolVars>>

\* Group.remove(name), by key
GroupRemoveName(name) ==
    /\ IF children[name] # NoPart
       THEN /\ groupChildren' = groupChildren \ {children[name]}
            /\ children' = [children EXCEPT ![name] = NoPart]
            /\ groupCollidableParts' = SetDelete(groupCollidableParts, children[name])
       ELSE UNCHANGED <<groupChildren, children, groupCollidableParts>>
    /\ op' = Op("groupRemoveName", name, children[name] # NoPart)
    /\ UNCHANGED <<bodyVars, keys, healthVars, now, collidableParts, spawnPoints,
                   enableHealth, frames, canCollide, groups, groupPosition, boxPosition,
                   unregistered, tick, dmg, windowEnd>>
    /\ UNCHANGED <<netVars, serverVars, partName, folderVars, toolVars>>

\* names the program gave the parts: their own, a shared one, or none
Namings ==
    {n \in [Parts -> PartNames] :
        /\ n["block"] = ""
        /\ n["floor"] \in {"floor", "crate", ""}
        /\ n["wall"] \in {"wall", "crate", ""}}

InitGroup ==
    /\ InitCharacter
    /\ InitParts
    /\ InitNetOff /\ InitServer /\ InitFolders /\ InitScripts /\ InitClock /\ InitTools
    /\ partName \in Namings
    /\ children = [k \in MemberKeys |-> NoPart]
    /\ position = <<0, 2000, 0>>
    /\ collidableParts = <<>>
    /\ spawnPoints = <<>>
    /\ enableHealth = FALSE
    /\ frames = 0

NextGroup ==
    \/ \E part \in SceneParts : GroupAdd(part)
    \/ \E part \in SceneParts : GroupRemove(part)
    \/ \E name \in MemberKeys : GroupRemoveName(name)
    \/ \E part \in SceneParts, v \in BOOLEAN : SetCanCollide(part, v)

SpecGroup == InitGroup /\ [][NextGroup]_vars

\* C27: after any sequence of Group.add and Group.remove calls on parts with or
\* without a name, getCollidableParts() returns only parts that getChildren()
\* returns (members are unique by name and remove(p) takes out exactly p).
C27_CollidableAreChildren == getCollidableParts \subseteq getChildren

-----------------------------------------------------------------------------
(* Folders: Folder.children is keyed by the name of the child; Folders and   *)
(* Leaves are named after themselves.                                       *)

\* frames of Folder.find the call stack holds before the engine throws
CallStackLimit == 4

FindNames == {"x", "B", "y"}

\* Folder.find(name) called on folder f at call depth d: the child found, "null",
\* or "RangeError" when the recursion exceeds the call stack
RECURSIVE find(_, _, _), findNested(_, _, _)
find(f, name, d) ==
    IF d > CallStackLimit THEN "RangeError"
    ELSE IF name \in Elements(folderChildren[f]) THEN name
    ELSE findNested(folderChildren[f], name, d)

\* the loop of Folder.find over this.children.values()
findNested(list, name, d) ==
    IF list = <<>> THEN "null"
    ELSE IF Head(list) \in Folders
         THEN LET found == find(Head(list), name, d + 1)
              IN  IF found # "null" THEN found ELSE findNested(Tail(list), name, d)
         ELSE findNested(Tail(list), name, d)

\* Folder.add(child) on folder f
FolderAdd(f, child) ==
    /\ folderChildren' = [folderChildren EXCEPT ![f] = SetAdd(@, child)]
    /\ UNCHANGED <<scriptVars, clockVars>>
    /\ op' = Op("folderAdd", <<f, child>>, TRUE)
    /\ UNCHANGED <<bodyVars, keys, healthVars, now, sceneVars, tick, dmg, windowEnd>>
    /\ UNCHANGED <<netVars, serverVars, memberVars, toolVars>>

\* Folder.find(name) on folder f
FolderFind(f, name) ==
    /\ op' = Op("find", <<f, name>>, find(f, name, 1))
    /\ UNCHANGED <<bodyVars, keys, healthVars, now, sceneVars, tick, dmg, windowEnd>>
    /\ UNCHANGED <<netVars, serverVars, memberVars, folderVars, toolVars>>

InitFolder ==
    /\ InitCharacter
    /\ InitParts
    /\ InitWorld
    /\ position = <<0, 2000, 0>>
    /\ collidableParts = <<>>
    /\ spawnPoints = <<>>
    /\ enableHealth = FALSE
    /\ frames = 0

NextFolder ==
    \/ \E f \in Folders, child \in Folders \cup Leaves : FolderAdd(f, child)
    \/ \E f \in Folders, name \in FindNames : FolderFind(f, name)

SpecFolder == InitFolder /\ [][NextFolder]_vars

\* the folders find(name) on f may visit: f and the Folders nested in it
RECURSIVE Nested(_, _)
Nested(seen, n) ==
    IF n = 0 THEN seen
    ELSE Nested(seen \cup {c \in Folders : \E g \in seen : c \in Elements(folderChildren[g])},
                n - 1)

Holds(f, name) ==
    \E g \in Nested({f}, Cardinality(Folders)) : name \in Elements(folderChildren[g])

\* C28: Folder.find(name) terminates for every structure built with Folder.add
\* and returns a child keyed name if the folder or a nested Folder has one,
\* else null.
C28_FindTerminates ==
    op.name = "find" =>
        /\ op.ret # "RangeError"
        /\ op.ret = IF Holds(op.arg[1], op.arg[2]) THEN op.arg[2] ELSE "null"

-----------------------------------------------------------------------------
(* Hopperbins: the tool flags, the static Hopperbin.currentHopperbin and the *)
(* Character's hopperbin keys.  A tool state t is the record                *)
(* [isEquipped, isActive, currentHopperbin].                                *)

ToolState ==
    [isEquipped |-> isEquipped, isActive |-> isActive, currentHopperbin |-> currentHopperbin]

\* Hopperbin.unequip()
unequip(t, h) ==
    [isEquipped       |-> [t.isEquipped EXCEPT ![h] = FALSE],
     isActive         |-> [t.isActive EXCEPT ![h] = FALSE],
     currentHopperbin |-> IF t.currentHopperbin = h THEN NoHopperbin
                          ELSE t.currentHopperbin]

\* equip that leaves the current hopperbin as it is
equip_KeepCurrent(t, h) ==
    [isEquipped       |-> [t.isEquipped EXCEPT ![h] = TRUE],
     isActive         |-> [t.isActive EXCEPT ![h] = FALSE],
     currentHopperbin |-> h]

\* Hopperbin.equip()
equip(t, h) ==
    LET u == IF t.currentHopperbin # NoHopperbin THEN unequip(t, t.currentHopperbin)
             ELSE t
    IN  [isEquipped       |-> [u.isEquipped EXCEPT ![h] = TRUE],
         isActive         |-> [u.isActive EXCEPT ![h] = FALSE],
         currentHopperbin |-> h]

\* Hopperbin.activate()
activate(t, h) ==
    IF t.isEquipped[h] /\ ~t.isActive[h]
    THEN [t EXCEPT !.isActive[h] = TRUE]
    ELSE t

\* Hopperbin.deactivate()
deactivate(t, h) ==
    IF t.isActive[h] THEN [t EXCEPT !.isActive[h] = FALSE] ELSE t

\* Character.activateHopperbin() with hopperbin a equipped on the Character
activateHopperbin(t, a) ==
    IF t.isActive[a] THEN deactivate(t, a) ELSE activate(t, a)

\* Character.equipHopperbin(name) with a the Character's active hopperbin
equipHopperbin(t, a, h) ==
    equip(IF a # NoHopperbin THEN unequip(t, a) ELSE t, h)

\* the tool state becomes t
SetTools(t) ==
    /\ isEquipped' = t.isEquipped
    /\ isActive' = t.isActive
    /\ currentHopperbin' = t.currentHopperbin

\* the keybinds hopperbinAction and hopperbinPutAway, and the number keys
ActionKey == " "

PutAwayKey == "escape"

NumberKeys == <<"1", "2">>

ToolKeys == {ActionKey, PutAwayKey} \cup Elements(NumberKeys)

\* index of a number key in Array.from(this.hopperbins.values())
KeyIndex(k) == CHOOSE i \in 1..Len(NumberKeys) : NumberKeys[i] = k

\* Character.addHopperbin(hopperbin)
AddHopperbin(h) ==
    /\ hopperbins' = SetAdd(hopperbins, h)
    /\ op' = Op("addHopperbin", h, TRUE)
    /\ UNCHANGED <<bodyVars, keys, healthVars, now, sceneVars, tick, dmg, windowEnd>>
    /\ UNCHANGED <<netVars, serverVars, memberVars, folderVars, activeHopperbin,
                   isEquipped, isActive, currentHopperbin, press>>

\* a keydown event of a hopperbin key: Character.handleKeyDown
HopperbinKeyDown(k) ==
    /\ IF k = ActionKey
       THEN /\ IF activeHopperbin # NoHopperbin
               THEN SetTools(activateHopperbin(ToolState, activeHopperbin))
               ELSE UNCHANGED <<isEquipped, isActive, currentHopperbin>>
            /\ press' = [down |-> TRUE, tool |-> activeHopperbin,
                         was |-> activeHopperbin # NoHopperbin /\ isActive[activeHopperbin]]
            /\ UNCHANGED activeHopperbin
       ELSE IF k = PutAwayKey
       THEN /\ IF activeHopperbin # NoHopperbin
               THEN SetTools(unequip(ToolState, activeHopperbin))
               ELSE UNCHANGED <<isEquipped, isActive, currentHopperbin>>
            /\ activeHopperbin' = NoHopperbin
            /\ UNCHANGED press
       ELSE IF KeyIndex(k) <= Len(hopperbins)
       THEN /\ SetTools(equipHopperbin(ToolState, activeHopperbin, hopperbins[KeyIndex(k)]))
            /\ activeHopperbin' = hopperbins[KeyIndex(k)]
            /\ UNCHANGED press
       ELSE UNCHANGED <<isEquipped, isActive, currentHopperbin, activeHopperbin, press>>
    /\ op' = Op("hopperbinKeyDown", k, TRUE)
    /\ UNCHANGED <<bodyVars, keys, healthVars, now, sceneVars, tick, dmg, windowEnd>>
    /\ UNCHANGED <<netVars, serverVars, memberVars, folderVars, hopperbins>>

\* the keyup event of the hopperbin action key: Character.handleKeyUp
HopperbinKeyUp ==
    /\ IF activeHopperbin # NoHopperbin
       THEN SetTools(deactivate(ToolState, activeHopperbin))
       ELSE UNCHANGED <<isEquipped, isActive, currentHopperbin>>
    /\ press' = [press EXCEPT !.down = FALSE]
    /\ op' = Op("hopperbinKeyUp", ActionKey, TRUE)
    /\ UNCHANGED <<bodyVars, keys, healthVars, now, sceneVars, tick, dmg, windowEnd>>
    /\ UNCHANGED <<netVars, serverVars, memberVars, folderVars, hopperbins,
                   activeHopperbin>>

\* a call of equip, unequip, activate or deactivate on hopperbin h
HopperbinCall(method, h) ==
    /\ SetTools(CASE method = "equip" -> equip(ToolState, h)
                  [] method = "unequip" -> unequip(ToolState, h)
                  [] method = "activate" -> activate(ToolState, h)
                  [] method = "deactivate" -> deactivate(ToolState, h))
    /\ op' = [name |-> method, arg |-> h, ret |-> TRUE, pre |-> currentHopperbin]
    /\ UNCHANGED <<bodyVars, keys, healthVars, now, sceneVars, tick, dmg, windowEnd>>
    /\ UNCHANGED <<netVars, serverVars, memberVars, folderVars, hopperbins,
                   activeHopperbin, press>>

Methods == {"equip", "unequip", "activate", "deactivate"}

InitToolbox ==
    /\ InitCharacter
    /\ InitParts
    /\ InitWorld
    /\ position = <<0, 2000, 0>>
    /\ collidableParts = <<>>
    /\ spawnPoints = <<>>
    /\ enableHealth = FALSE
    /\ frames = 0

NextToolbox ==
    \/ \E h \in Hopperbins : AddHopperbin(h)
    \/ \E k \in ToolKeys : HopperbinKeyDown(k)
    \/ HopperbinKeyUp
    \/ \E method \in Methods, h \in Hopperbins : HopperbinCall(method, h)

SpecToolbox == InitToolbox /\ [][NextToolbox]_vars

\* C29: with a hopperbin equipped, a press of the hopperbin action key (its
\* keydown followed by its keyup) toggles the tool: active after the press if
\* it was inactive before, inactive if it was active.
C29_PressToggles ==
    [][/\ op.name = "hopperbinKeyDown" /\ op.arg = ActionKey
       /\ op'.name = "hopperbinKeyUp"
       /\ press.tool # NoHopperbin
       => isActive'[press.tool] = ~press.was]_vars

\* C30: after any sequence of equip, unequip, activate and deactivate calls at
\* most one Hopperbin is equipped, the equipped one is
\* Hopperbin.currentHopperbin, and every active Hopperbin is equipped.
C30_OneEquipped ==
    /\ Cardinality({h \in Hopperbins : isEquipped[h]}) <= 1
    /\ \A h \in Hopperbins : isEquipped[h] => currentHopperbin = h
    /\ \A h \in Hopperbins : isActive[h] => isEquipped[h]

\* equip was called on one hopperbin while another was the current one
C30_Witness ==
    /\ op.name = "equip"
    /\ op.pre \in Hopperbins \ {op.arg}
    /\ isEquipped[op.arg]
    /\ currentHopperbin = op.arg

-----------------------------------------------------------------------------
(* The contact classification of handleCollision and the vertical velocity. *)

\* C31: handleCollision treats a contact as a top contact exactly when
\* direction.y > 0.3 or (|bodyBox.min.y - partBox.max.y| < 0.5 and
\* velocity.y <= 0), direction being the normalized vector from the part's box
\* centre to the body's; a top contact does not rewind: position and
\* positionHistory are unchanged.
C31_TopClassification ==
    [][op'.name = "handleCollision" =>
          LET pb  == boundingBox(position)
              qb  == partBoundingBox(op'.arg)
              top == \/ Direction[2] > 0 /\ 100 * Direction[2] * Direction[2] > 9 * Norm2(Direction)
                     \/ Abs(pb.min[2] - qb.max[2]) < 500 /\ velocity[2] <= 0
          IN  /\ (op'.arg \in tick'.tops) = top
              /\ top => position' = position /\ positionHistory' = positionHistory
              /\ ~top /\ Len(positionHistory) > 0 => op'.arg \in tick'.sides]_vars

\* a contact far from the floor's centre, classified as top by the distance to
\* the surface alone, left the position and a full history as they were
C31_Witness ==
    /\ op.name = "handleCollision"
    /\ op.arg = "floor"
    /\ tick.tops = {"floor"}
    /\ position = <<19000, 2000, -1200>>
    /\ Len(positionHistory) = 3
    /\ velocity[2] = 0

\* C32: in every state reached by ticks from a body spawned at rest,
\* -maxFallSpeed <= velocity.y <= jumpForce.
C32_VerticalSpeedBounded ==
    -maxFallSpeed <= velocity[2] /\ velocity[2] <= jumpForce

\* a fall long enough for the cap to act: the frame's update left velocity.y
\* at -maxFallSpeed
C32_Witness ==
    /\ op.name = "tick"
    /\ tick.vyIn = -maxFallSpeed
    /\ velocity[2] = -maxFallSpeed
    /\ ~isGrounded

\* the body's box and the part's box overlap on all three axes
Overlapping(p, part) ==
    \A i \in 1..3 : overlap(boundingBox(p), partBoundingBox(part))[i] > 0

\* C33: a grounded body that walks toward a collidable volume it does not
\* overlap does not end the tick overlapping that volume on all three axes,
\* whatever the height of the volume.
C33_NoWalkingIntoVolumes ==
    [][\A part \in Elements(collidableParts) \ {"floor"} :
          op'.name = "tick" /\ isGrounded /\ keys.w /\ ~Overlapping(position, part)
              => ~Overlapping(position', part)]_vars

\* C34: if the body ended a tick grounded on the floor and the jump key is
\* held during the next tick, that tick ends airborne with velocity.y > 0 and
\* position.y higher than before, for every resting depth and every position
\* on the floor.
C34_JumpLeavesFloor ==
    [][op'.name = "tick" /\ isGrounded /\ "floor" \in tick.tops /\ keys.control
          => ~isGrounded' /\ velocity'[2] > 0 /\ position'[2] > position[2]]_vars

\* the displacement an update adds on top of the velocity
InputDisplacement == [i \in 1..3 |-> position'[i] - position[i] - velocity'[i]]

\* the number of a flag: 1 when set
Flag(k) == IF keys[k] THEN 1 ELSE 0

\* C35: in Character.update opposing flags cancel and each single flag adds a
\* vector of length moveSpeed along the camera's horizontal forward or right
\* vector: the input displacement is moveSpeed * ((w - s) forward + (a - d) right).
C35_OpposingFlagsCancel ==
    [][op'.name = "update" =>
          InputDisplacement =
              VAdd(multiplyScalar(cameraDirection, moveSpeed * (Flag("w") - Flag("s"))),
                   multiplyScalar(cameraRight, moveSpeed * (Flag("a") - Flag("d"))))]_vars

\* C36: after a relocation by setPosition (respawnPlayer and the reset of
\* updateCamera relocate through it) a history rewind does not move the body
\* to a position recorded before the relocation: a rewind in the tick that
\* follows the relocation restores the relocated position, the only one
\* recorded since.
C36_NoRewindAcrossRelocation ==
    [][op.name = "setPosition" /\ op'.name = "tick" /\ tick'.sides # {}
          => position' = position]_vars

\* C37: setInvulnerable(d) changes only isInvulnerable: a call of it, on its
\* own or from respawnPlayer, leaves invulnerabilityDuration and
\* lastDamageTime as they were (and health, when called on its own), so the
\* damage cooldown after a respawn is the one before it.
C37_SetInvulnerableKeepsCooldown ==
    [][/\ op'.name = "setInvulnerable"
           => /\ invulnerabilityDuration' = invulnerabilityDuration
              /\ lastDamageTime' = lastDamageTime
              /\ health' = health
       /\ op'.name = "tick" /\ tick'.dead /\ Len(spawnPoints) # 0
           => /\ invulnerabilityDuration' = invulnerabilityDuration
              /\ lastDamageTime' = lastDamageTime]_vars

-----------------------------------------------------------------------------
(* The hopperbin inventory of one Character.                                *)

\* Character.removeHopperbin(name)
RemoveHopperbin(h) ==
    /\ hopperbins' = SetDelete(hopperbins, h)
    /\ op' = Op("removeHopperbin", h, h \in Elements(hopperbins))
    /\ UNCHANGED <<bodyVars, keys, healthVars, now, sceneVars, tick, dmg, windowEnd>>
    /\ UNCHANGED <<netVars, serverVars, memberVars, folderVars, activeHopperbin,
                   isEquipped, isActive, currentHopperbin, press>>

\* Character.equipHopperbin(name)
EquipHopperbin(h) ==
    /\ IF h \in Elements(hopperbins)
       THEN /\ SetTools(equipHopperbin(ToolState, activeHopperbin, h))
            /\ activeHopperbin' = h
       ELSE UNCHANGED <<isEquipped, isActive, currentHopperbin, activeHopperbin>>
    /\ op' = Op("equipHopperbin", h, h \in Elements(hopperbins))
    /\ UNCHANGED <<bodyVars, keys, healthVars, now, sceneVars, tick, dmg, windowEnd>>
    /\ UNCHANGED <<netVars, serverVars, memberVars, folderVars, hopperbins, press>>

\* Character.unequipHopperbin()
UnequipHopperbin ==
    /\ IF activeHopperbin # NoHopperbin
       THEN /\ SetTools(unequip(ToolState, activeHopperbin))
            /\ activeHopperbin' = NoHopperbin
       ELSE UNCHANGED <<isEquipped, isActive, currentHopperbin, activeHopperbin>>
    /\ op' = Op("unequipHopperbin", 0, activeHopperbin # NoHopperbin)
    /\ UNCHANGED <<bodyVars, keys, healthVars, now, sceneVars, tick, dmg, windowEnd>>
    /\ UNCHANGED <<netVars, serverVars, memberVars, folderVars, hopperbins, press>>

NextInventory ==
    \/ \E h \in Hopperbins : AddHopperbin(h)
    \/ \E h \in Hopperbins : RemoveHopperbin(h)
    \/ \E h \in Hopperbins : EquipHopperbin(h)
    \/ UnequipHopperbin
    \/ \E k \in ToolKeys : HopperbinKeyDown(k)
    \/ HopperbinKeyUp

SpecInventory == InitToolbox /\ [][NextInventory]_vars

\* C38: after any sequence of addHopperbin, removeHopperbin, equipHopperbin
\* and unequipHopperbin calls the Character's activeHopperbin is null or a
\* Hopperbin of the Character's hopperbins map whose isEquipped is true.
C38_ActiveIsOwnedAndEquipped ==
    \/ activeHopperbin = NoHopperbin
    \/ activeHopperbin \in Elements(hopperbins) /\ isEquipped[activeHopperbin]

-----------------------------------------------------------------------------
(* Tool scripts over the network: Scripting.executeScript on a client, the  *)
(* toolAction handler of the server and the client's socket.                *)

MaxScriptCalls == 2

\* the events the client's socket listens to: the socket.on calls of
\* Engine.initializeMultiplayer
Listeners ==
    {"connect", "disconnect", "playerJoined", "playerLeft", "playerUpdate", "currentPlayers"}

\* one more run of the script on client c
execute(runs, c) == [runs EXCEPT ![c] = @ + 1]

\* Scripting.executeScript on client c; sync: multiplayer is enabled, the
\* script's syncMultiplayer option is set and the engine has a socket
ExecuteScript(c, sync) ==
    /\ scriptRuns[c] < MaxScriptCalls
    /\ scriptRuns' = execute(scriptRuns, c)
    /\ serverInbox' = IF sync THEN Append(serverInbox, c) ELSE serverInbox
    /\ op' = Op("executeScript", c, sync)
    /\ UNCHANGED <<bodyVars, keys, healthVars, now, sceneVars, tick, dmg, windowEnd>>
    /\ UNCHANGED <<netVars, serverVars, memberVars, folderChildren, inbox, clockVars,
                   toolVars>>

\* socket.on('toolAction') of the server: the data built by executeScript has
\* a toolName and a context, and is broadcast to every socket but the sender's
ServerToolAction ==
    /\ serverInbox # <<>>
    /\ inbox' = [d \in Clients |-> IF d # Head(serverInbox) THEN inbox[d] + 1 ELSE inbox[d]]
    /\ serverInbox' = Tail(serverInbox)
    /\ op' = Op("toolAction", Head(serverInbox), TRUE)
    /\ UNCHANGED <<bodyVars, keys, healthVars, now, sceneVars, tick, dmg, windowEnd>>
    /\ UNCHANGED <<netVars, serverVars, memberVars, folderChildren, scriptRuns, clockVars,
                   toolVars>>

\* a relayed toolAction event arrives at the socket of client d: a listener,
\* if the socket has one, passes it to Scripting.handleRemoteToolAction, which
\* runs the script and emits nothing
ClientToolAction(d) ==
    /\ inbox[d] > 0
    /\ inbox' = [inbox EXCEPT ![d] = @ - 1]
    /\ scriptRuns' = IF "toolAction" \in Listeners THEN execute(scriptRuns, d) ELSE scriptRuns
    /\ op' = Op("clientToolAction", d, "toolAction" \in Listeners)
    /\ UNCHANGED <<bodyVars, keys, healthVars, now, sceneVars, tick, dmg, windowEnd>>
    /\ UNCHANGED <<netVars, serverVars, memberVars, folderChildren, serverInbox, clockVars,
                   toolVars>>

NextScript ==
    \/ \E c \in Clients, sync \in BOOLEAN : ExecuteScript(c, sync)
    \/ ServerToolAction
    \/ \E d \in Clients : ClientToolAction(d)

SpecScript == InitToolbox /\ [][NextScript]_vars

\* C39: the server relays a toolAction to every socket except the sender's,
\* and a relayed toolAction makes the receiving client run the script exactly
\* once and send no toolAction of its own.
C39_RemoteRunsOnce ==
    [][/\ op'.name = "toolAction"
           => \A d \in Clients :
                 inbox'[d] = inbox[d] + (IF d # op'.arg THEN 1 ELSE 0)
       /\ op'.name = "clientToolAction"
           => /\ scriptRuns' = [scriptRuns EXCEPT ![op'.arg] = @ + 1]
              /\ serverInbox' = serverInbox]_vars

====
